---- MODULE Spec2Model ----
(***************************************************************************)
(* Model of the turn orchestrator of retail-media-creative-builder: the    *)
(* LangGraph state graph of src/graph/build_graph.py, its routers          *)
(* (src/graph/routers.py), the stage functions registered as its nodes     *)
(* (src/agents/nodes_dummy.py, copy_validator_agent.py,                    *)
(* layout_planner_agent.py) and the compliance tools they call.            *)
(*                                                                         *)
(* The turn state is the dict threaded through the graph.  An optional     *)
(* value (a key that may be absent or None) is a sequence of length 0 or 1.*)
(* A missing string is "".  Normalized coordinates are integers in units   *)
(* of 1/Unit.                                                              *)
(***************************************************************************)
EXTENDS Integers, Sequences, FiniteSets, TLC

VARIABLES
    pc,                 \* the node or router the graph executes next
    session_config,     \* state["session_config"]
    ui_context,         \* state["ui_context"]
    packshot_priority,  \* the packshot hint _extract_style_hints reads in user_text
    max_tool_loops,     \* state["max_tool_loops"]
    pipeline,           \* state["pipeline"]: agents_run, tool_loops, routing
    outputs,            \* state["outputs"]: copy_out, layout, compliance, artifacts
    compliance_result,  \* state["compliance_result"]
    invoked,            \* the nodes the graph has invoked, in order
    issues_in,          \* argument of resolve_status (status resolution on its own)
    resolved,           \* what status resolution returned for issues_in
    errors,             \* state["errors"]
    now,                \* the clock utc_now reads
    validated,          \* the payloads run_compliance_agent returned for one snapshot
    raw,                \* what llm.chat returned to the last run_copy_validator, if it returned
    sessions,           \* the sessions collection: session id -> session document
    turns,              \* the turns collection, in insertion order
    active,             \* the state of the turn run_turn is running, if any
    workers,            \* concurrent run_turn executions: position, turn state, count read
    memory_config,      \* SessionMemoryStore.config: max_messages, max_chars_total
    memory,             \* the memory dict SessionMemoryStore.append is given and returns
    appended,           \* every message appended to memory, in order
    rects,              \* the rects given to the geometry functions
    margins,            \* the safe-zone margins given with them
    layout_json,        \* the layout given to run_compliance_checks
    plan,               \* the platform and style hints given to the layout planner, and its plan
    result              \* what the geometry functions or run_compliance_checks returned

turn == <<pc, session_config, ui_context, packshot_priority, max_tool_loops,
          pipeline, outputs, compliance_result, invoked>>
memstore == <<memory_config, memory, appended>>
store == <<sessions, turns, active, workers, memstore>>
geom == <<rects, margins, layout_json, plan, result>>
aux == <<issues_in, resolved, errors, now, validated, raw, store, geom>>
vars == <<turn, aux>>

(***************************************************************************)
(* Bounds of the model.                                                    *)
(***************************************************************************)
\* session_config.max_tool_loops ranges over absent and 0..MaxConfigLoops
MaxConfigLoops == 2
\* the routers on their own are given retry counters 0..MaxToolLoops
MaxToolLoops == 7
\* the clock read by run_compliance_agent shows 0..MaxClock
MaxClock == 2
\* memory configurations keep 0..MaxMessages messages of 0..MaxCharsTotal characters
\* in all; up to MaxAppends messages of 0..MaxContent characters are appended
MaxMessages == 2
MaxCharsTotal == 3
MaxContent == 4
MaxAppends == 4
\* a layout has at most MaxLayers layers
MaxLayers == 3
\* rects are at most MaxExtent grid steps wide and high
MaxExtent == 3
\* the centres of the rects given to _overlap are at most MaxCoord grid steps
\* from the corner
MaxCoord == 2
\* margins are at most MaxMargin grid steps
MaxMargin == 1
\* the turns collection holds at most MaxTurns turn documents
MaxTurns == 3
\* issue lists given to status resolution have at most MaxIssues issues
MaxIssues == 4
\* the record of invoked nodes keeps at most MaxInvoked entries (a turn of the
\* graph invokes fewer: InvokedRecordComplete)
MaxInvoked == 22

(***************************************************************************)
(* Program constants.                                                      *)
(***************************************************************************)
DefaultMaxToolLoops == 6
FallbackMaxToolLoops == 6
DefaultMinFontPx == 24
MinFontPx == 12
MinPackshotPaddingPx == 8
Unit == 10000000

None == <<>>
Some(v) == <<v>>

(***************************************************************************)
(* Layout geometry (layout_planner_agent.py).  Factors are hundredths.     *)
(***************************************************************************)
Pct(a, p) == (a * p) \div 100
Hundredths(p) == p * (Unit \div 100)

_clamp01(x) == IF x < 0 THEN 0 ELSE IF x > Unit THEN Unit ELSE x

RectN(x, y, w, h) == [x |-> x, y |-> y, w |-> w, h |-> h]

SafeZones(t, b, l, r) ==
    [top |-> Hundredths(t), bottom |-> Hundredths(b),
     left |-> Hundredths(l), right |-> Hundredths(r)]

Platforms == {"instagram_feed", "instagram_story", "facebook_feed", "facebook_story"}

PLATFORM_PRESETS ==
    [p \in Platforms |->
        CASE p = "instagram_feed" ->
                [format |-> "1080x1080", width |-> 1080, height |-> 1080,
                 safe_zones |-> SafeZones(6, 10, 5, 5)]
          [] p = "instagram_story" ->
                [format |-> "1080x1920", width |-> 1080, height |-> 1920,
                 safe_zones |-> SafeZones(8, 12, 6, 6)]
          [] p = "facebook_feed" ->
                [format |-> "1200x628", width |-> 1200, height |-> 628,
                 safe_zones |-> SafeZones(8, 12, 6, 6)]
          [] OTHER ->
                [format |-> "1080x1920", width |-> 1080, height |-> 1920,
                 safe_zones |-> SafeZones(8, 12, 6, 6)]]

_inside_safe(rect, safe) ==
    LET left   == rect.x - rect.w \div 2
        right  == rect.x + rect.w \div 2
        top    == rect.y - rect.h \div 2
        bottom == rect.y + rect.h \div 2
    IN  /\ left >= safe.left
        /\ right <= Unit - safe.right
        /\ top >= safe.top
        /\ bottom <= Unit - safe.bottom

_safe_rect(safe) ==
    RectN((safe.left + (Unit - safe.right)) \div 2,
          (safe.top + (Unit - safe.bottom)) \div 2,
          Unit - safe.left - safe.right,
          Unit - safe.top - safe.bottom)

\* the three named zones: title_zone, packshot_zone, cta_zone
_make_zones(safe) ==
    LET s == _safe_rect(safe)
    IN  [title_zone    |-> RectN(s.x, _clamp01(s.y - Pct(s.h, 32)), s.w, Pct(s.h, 26)),
         packshot_zone |-> RectN(s.x, s.y, s.w, Pct(s.h, 44)),
         cta_zone      |-> RectN(s.x, _clamp01(s.y + Pct(s.h, 34)), s.w, Pct(s.h, 26))]

\* mutant: the bias is applied to the whole width and height of the zone
_rect_in_zone_whole_bias(zone, w, h, x_bias, y_bias) ==
    LET cx == zone.x + Pct(zone.w, x_bias)
        cy == zone.y + Pct(zone.h, y_bias)
    IN  RectN(_clamp01(cx), _clamp01(cy), _clamp01(Hundredths(w)), _clamp01(Hundredths(h)))

\* w, h, x_bias, y_bias in hundredths
_rect_in_zone(zone, w, h, x_bias, y_bias) ==
    LET cx == zone.x + Pct(Pct(zone.w, 20), x_bias)
        cy == zone.y + Pct(Pct(zone.h, 20), y_bias)
    IN  RectN(_clamp01(cx), _clamp01(cy), _clamp01(Hundredths(w)), _clamp01(Hundredths(h)))

Min(a, b) == IF a < b THEN a ELSE b

Layer(type, rect, critical) == [type |-> type, rect |-> rect, critical |-> critical]

\* the layer plan of _derive_layout_for_platform, in the order it appends
PlannedLayers(platform, priority) ==
    LET preset   == PLATFORM_PRESETS[platform]
        z        == _make_zones(preset.safe_zones)
        is_story == preset.height > preset.width
        pw0      == IF is_story THEN 62 ELSE 55
        ph0      == IF is_story THEN 48 ELSE 52
        pack_w   == IF priority = "high" THEN Min(70, pw0 + 8) ELSE pw0
        pack_h   == IF priority = "high" THEN Min(62, ph0 + 8) ELSE ph0
    IN  << Layer("background", RectN(Unit \div 2, Unit \div 2, Unit, Unit), FALSE),
           Layer("packshot",
                 _rect_in_zone(z.packshot_zone, pack_w, pack_h,
                               IF is_story THEN 0 ELSE 18, 5), TRUE),
           Layer("logo",
                 _rect_in_zone(z.title_zone, IF is_story THEN 18 ELSE 16,
                               IF is_story THEN 10 ELSE 9, -35, -20), TRUE),
           Layer("headline",
                 _rect_in_zone(z.title_zone, 70, IF is_story THEN 12 ELSE 14,
                               IF is_story THEN 0 ELSE 10, 12), TRUE),
           Layer("cta",
                 _rect_in_zone(z.cta_zone, IF is_story THEN 36 ELSE 34,
                               IF is_story THEN 11 ELSE 12, 30, 10), TRUE),
           Layer("value_tile",
                 _rect_in_zone(z.cta_zone, IF is_story THEN 30 ELSE 28,
                               IF is_story THEN 14 ELSE 16, -32, 5), TRUE) >>

\* LayoutOutput.decision: WARN iff the safety check collected a warning
_derive_layout_for_platform(platform, priority) ==
    LET layers == PlannedLayers(platform, priority)
        safe   == PLATFORM_PRESETS[platform].safe_zones
        warned == \E i \in 1..Len(layers) :
                      layers[i].critical /\ ~_inside_safe(layers[i].rect, safe)
    IN  IF warned THEN "WARN" ELSE "OK"

\* the decision for every platform and packshot priority, computed once
LayoutDecision ==
    [platform \in Platforms, priority \in {"normal", "high"} |->
        _derive_layout_for_platform(platform, priority)]

(***************************************************************************)
(* Compliance tools (tools/compliance) over the fields they read.          *)
(***************************************************************************)
Severity == {"INFO", "WARN", "HARD_FAIL"}
ComplianceIssueSeverity == {"WARN", "HARD_FAIL"}

Issue(code, severity) == [code |-> code, severity |-> severity]

\* what the copy text is to the patterns of copy_claims.py: "" is empty text
CopyTexts == {"", "plain", "price", "claim", "price claim"}
MatchesPrice(txt) == txt \in {"price", "price claim"}
MatchesCompetitor(txt) == txt \in {"claim", "price claim"}

detect_copy_issues(copy_text) ==
    IF copy_text = ""
    THEN << Issue("COPY_EMPTY", "WARN") >>
    ELSE (IF MatchesPrice(copy_text)
          THEN << Issue("COPY_PRICE_CLAIM", "WARN") >> ELSE << >>)
         \o
         (IF MatchesCompetitor(copy_text)
          THEN << Issue("COPY_COMPETITOR_OR_GUARANTEE", "WARN") >> ELSE << >>)

\* a layout spec as the tesco rules see it
\*   safe_zones      : spec.safe_zones is a non-empty dict
\*   min_font_px     : spec.typography.min_font_px, optional
\*   value_tile      : spec.elements.value_tile is "absent", has "text" or "notext"
\*   same_anchor     : elements.cta and elements.tag exist with one anchor
\*   packshot        : spec.elements.packshot is truthy
\*   min_padding_px  : spec.elements.packshot.min_padding_px, optional
\*   format          : spec.format, "" when absent
EmptySpec ==
    [safe_zones |-> FALSE, min_font_px |-> None, value_tile |-> "absent",
     same_anchor |-> FALSE, packshot |-> FALSE, min_padding_px |-> None,
     format |-> ""]

check_value_tile_rules(layout) ==
    IF layout.value_tile = "notext"
    THEN << Issue("VALUE_TILE_MISSING_TEXT", "HARD_FAIL") >> ELSE << >>

check_social_safe_zones(layout) ==
    IF ~layout.safe_zones
    THEN << Issue("SAFE_ZONES_MISSING", "WARN") >> ELSE << >>

check_font_sizes(layout) ==
    IF layout.min_font_px = None
    THEN << Issue("FONT_MIN_NOT_SET", "WARN") >>
    ELSE IF layout.min_font_px[1] < MinFontPx
         THEN << Issue("FONT_TOO_SMALL", "HARD_FAIL") >> ELSE << >>

check_cta_tag_overlaps(layout) ==
    IF layout.same_anchor
    THEN << Issue("CTA_TAG_POTENTIAL_OVERLAP", "WARN") >> ELSE << >>

check_packshot_spacing(layout) ==
    IF ~layout.packshot THEN << >>
    ELSE IF layout.min_padding_px = None
         THEN << Issue("PACKSHOT_PADDING_MISSING", "WARN") >>
         ELSE IF layout.min_padding_px[1] < MinPackshotPaddingPx
              THEN << Issue("PACKSHOT_PADDING_TOO_LOW", "HARD_FAIL") >> ELSE << >>

\* mutant: WARN is looked for before HARD_FAIL
resolve_status_warn_first(issues) ==
    LET has_fail == \E i \in 1..Len(issues) : issues[i].severity = "HARD_FAIL"
        has_warn == \E i \in 1..Len(issues) : issues[i].severity = "WARN"
    IN  IF has_warn THEN "WARN" ELSE IF has_fail THEN "HARD_FAIL" ELSE "PASS"

resolve_status(issues) ==
    LET has_fail == \E i \in 1..Len(issues) : issues[i].severity = "HARD_FAIL"
        has_warn == \E i \in 1..Len(issues) : issues[i].severity = "WARN"
    IN  IF has_fail THEN "HARD_FAIL" ELSE IF has_warn THEN "WARN" ELSE "PASS"

\* "Determine status" of run_compliance_checks (compliance_agent.py)
ChecksStatus(issues) ==
    LET hard == \E i \in 1..Len(issues) : issues[i].severity = "HARD_FAIL"
    IN  IF hard THEN "HARD_FAIL" ELSE IF Len(issues) > 0 THEN "WARN" ELSE "PASS"

\* the payload of run_compliance_agent: status and issues
run_compliance_agent(outs) ==
    LET layout_spec == outs.layout.spec
        copy_text   == outs.copy_out.text
        issues      == detect_copy_issues(copy_text)
                       \o check_value_tile_rules(layout_spec)
                       \o check_social_safe_zones(layout_spec)
                       \o check_font_sizes(layout_spec)
                       \o check_cta_tag_overlaps(layout_spec)
                       \o check_packshot_spacing(layout_spec)
    IN  [status |-> resolve_status(issues), issues |-> issues]

\* the "compliance" payload run_compliance_agent returns, created_at = utc_now()
compliance_payload(outs, created_at) ==
    [status |-> run_compliance_agent(outs).status,
     issues |-> run_compliance_agent(outs).issues,
     checked_at |-> created_at,
     policy |-> "tesco_appendix_ab_stub_rules_v1"]

(***************************************************************************)
(* Routers (graph/routers.py).  A router gets the pipeline record, the     *)
(* remaining state it reads, and returns the next node with the pipeline   *)
(* as it leaves it.                                                        *)
(***************************************************************************)
_get_max_tool_loops(mtl, cfg) ==
    IF mtl # 0 THEN mtl
    ELSE IF cfg.max_tool_loops # None /\ cfg.max_tool_loops[1] # 0
         THEN cfg.max_tool_loops[1]
         ELSE FallbackMaxToolLoops

_get_tool_loops(pl) == pl.tool_loops

\* mutant: a retry is counted twice
_inc_tool_loops_twice(pl) == [pl EXCEPT !.tool_loops = @ + 2]

_inc_tool_loops(pl) == [pl EXCEPT !.tool_loops = @ + 1]

\* compliance_node has set state["compliance_result"]; "" falls through to outputs
_compliance_status(cr, outs) ==
    IF cr # "" THEN cr
    ELSE IF outs.compliance.status # "" THEN outs.compliance.status ELSE "UNKNOWN"

_has_hard_fail_issue(outs) ==
    \E i \in 1..Len(outs.compliance.issues) :
        outs.compliance.issues[i].severity = "HARD_FAIL"

\* mutant: the layout result is looked at before the copy result
_prefer_loop_target_layout_first(pl) ==
    IF pl.routing.layout_result \in {"FAIL", "HARD_FAIL"} THEN "layout_planner"
    ELSE IF pl.routing.copy_result \in {"FAIL", "HARD_FAIL"} THEN "copy_validator"
    ELSE "imageops"

_prefer_loop_target(pl) ==
    IF pl.routing.copy_result \in {"FAIL", "HARD_FAIL"} THEN "copy_validator"
    ELSE IF pl.routing.layout_result \in {"FAIL", "HARD_FAIL"} THEN "layout_planner"
    ELSE "imageops"

Route(next, pl) == [next |-> next, pipeline |-> pl]

\* mutant: the budget is taken as used up one retry early
route_after_compliance_off_by_one(pl, cr, outs, mtl, cfg) ==
    IF _compliance_status(cr, outs) \in {"PASS", "WARN"} /\ ~_has_hard_fail_issue(outs)
    THEN Route("exporter", pl)
    ELSE IF _get_tool_loops(pl) + 1 >= _get_max_tool_loops(mtl, cfg)
         THEN Route("summarizer", pl)
         ELSE Route(_prefer_loop_target(_inc_tool_loops(pl)), _inc_tool_loops(pl))

\* mutant: only the status is looked at, not the issues
route_after_compliance_status_only(pl, cr, outs, mtl, cfg) ==
    IF _compliance_status(cr, outs) \in {"PASS", "WARN"}
    THEN Route("exporter", pl)
    ELSE IF _get_tool_loops(pl) >= _get_max_tool_loops(mtl, cfg)
         THEN Route("summarizer", pl)
         ELSE Route(_prefer_loop_target(_inc_tool_loops(pl)), _inc_tool_loops(pl))

route_after_compliance(pl, cr, outs, mtl, cfg) ==
    IF _compliance_status(cr, outs) \in {"PASS", "WARN"} /\ ~_has_hard_fail_issue(outs)
    THEN Route("exporter", pl)
    ELSE IF _get_tool_loops(pl) >= _get_max_tool_loops(mtl, cfg)
         THEN Route("summarizer", pl)
         ELSE Route(_prefer_loop_target(_inc_tool_loops(pl)), _inc_tool_loops(pl))

\* mutant: only the copy result is looked at
route_after_master_copy_only(pl) ==
    IF pl.routing.copy_result = "PASS"
    THEN Route("imageops", pl)
    ELSE Route("copy_validator", pl)

route_after_master(pl) ==
    IF pl.routing.copy_result = "PASS" /\ pl.routing.layout_result = "OK"
    THEN Route("imageops", pl)
    ELSE Route("copy_validator", pl)

\* mutant: a copy result of WARN also goes forward
route_after_copy_forward_on_warn(pl, mtl, cfg) ==
    IF pl.routing.copy_result \in {"PASS", "WARN"}
    THEN Route("layout_planner", pl)
    ELSE IF _get_tool_loops(pl) >= _get_max_tool_loops(mtl, cfg)
         THEN Route("summarizer", pl)
         ELSE Route("copy_validator", _inc_tool_loops(pl))

\* mutant: a copy retry does not use up budget
route_after_copy_no_inc(pl, mtl, cfg) ==
    IF pl.routing.copy_result = "PASS"
    THEN Route("layout_planner", pl)
    ELSE IF _get_tool_loops(pl) >= _get_max_tool_loops(mtl, cfg)
         THEN Route("summarizer", pl)
         ELSE Route("copy_validator", pl)

route_after_copy(pl, mtl, cfg) ==
    IF pl.routing.copy_result = "PASS"
    THEN Route("layout_planner", pl)
    ELSE IF _get_tool_loops(pl) >= _get_max_tool_loops(mtl, cfg)
         THEN Route("summarizer", pl)
         ELSE Route("copy_validator", _inc_tool_loops(pl))

route_after_layout(pl, mtl, cfg) ==
    IF pl.routing.layout_result = "OK"
    THEN Route("imageops", pl)
    ELSE IF _get_tool_loops(pl) >= _get_max_tool_loops(mtl, cfg)
         THEN Route("summarizer", pl)
         ELSE Route("layout_planner", _inc_tool_loops(pl))

(***************************************************************************)
(* Stage functions: the nodes build_graph registers.                       *)
(***************************************************************************)
Append1(seq, name) ==
    IF \E i \in 1..Len(seq) : seq[i] = name THEN seq ELSE Append(seq, name)

\* nodes_dummy.master_node: the setdefault calls leave existing keys alone
master_node(pl) == [pl EXCEPT !.agents_run = Append1(@, "master")]

Decision == {"PASS", "WARN", "HARD_FAIL"}

\* a text llm.chat may return, by what the parsing steps of run_copy_validator
\* make of it:
\*   whole  : json.loads(raw) gives a JSON object of the CopyOutput shape
\*            ("copy"), another JSON value ("other"), or raises ("error")
\*   braces : raw[raw.find("{") : raw.rfind("}") + 1] is absent ("none"), or
\*            json.loads of it gives "copy" or "other", or raises ("error")
\*   decision, text : of the CopyOutput object, when there is one
RawText(whole, braces, decision, text) ==
    [whole |-> whole, braces |-> braces, decision |-> decision, text |-> text]

RawTexts ==
    { RawText(w, "copy", d, t) : w \in {"copy", "error"}, d \in Decision, t \in CopyTexts }
    \cup { RawText("other", b, "", "") : b \in {"other", "none"} }
    \cup { RawText("error", b, "", "") : b \in {"other", "error", "none"} }

\* the CopyOutput both fallbacks of run_copy_validator build
FallbackCopy == [raised |-> FALSE, decision |-> "WARN", text |-> "plain"]

\* CopyOutput.model_validate(parsed), ValidationError caught
validate_copy(parsed, rawtext) ==
    IF parsed = "copy"
    THEN [raised |-> FALSE, decision |-> rawtext.decision, text |-> rawtext.text]
    ELSE FallbackCopy

\* run_copy_validator from the text to the CopyOutput: json.loads, on failure
\* json.loads of the brace-delimited substring (outside any try), else the
\* placeholder; then validation
parse_copy_output(rawtext) ==
    IF rawtext.whole # "error" THEN validate_copy(rawtext.whole, rawtext)
    ELSE IF rawtext.braces = "none" THEN FallbackCopy
    ELSE IF rawtext.braces = "error"
         THEN [raised |-> TRUE, decision |-> "", text |-> ""]
         ELSE validate_copy(rawtext.braces, rawtext)

\* copy_validator_agent.run_copy_validator with the validated CopyOutput
\* (decision, and the text compliance will read: headline or caption)
run_copy_validator_outputs(outs, decision, text) ==
    [outs EXCEPT !.copy_out = [decision |-> decision, text |-> text]]

run_copy_validator_pipeline(pl, decision) ==
    [pl EXCEPT !.routing.copy_result = decision]

\* the spec run_layout_planner dumps: safe zones mirrored, typography defaulted,
\* no "elements" key (LayoutSpec forbids extra fields)
PlannedSpec(platform) ==
    [EmptySpec EXCEPT !.safe_zones = TRUE,
                      !.min_font_px = Some(DefaultMinFontPx),
                      !.format = PLATFORM_PRESETS[platform].format]

run_layout_planner_outputs(outs, platform, priority) ==
    [outs EXCEPT !.layout = [decision |-> LayoutDecision[platform, priority],
                             spec |-> PlannedSpec(platform)]]

run_layout_planner_pipeline(pl, platform, priority) ==
    [pl EXCEPT !.agents_run = Append1(@, "layout_planner"),
               !.routing.layout_result = LayoutDecision[platform, priority]]

\* run_imageops_agent: one artifact per entry of output_formats
OutputFormats(selected_formats, layout_spec) ==
    IF selected_formats # << >> THEN selected_formats
    ELSE << IF layout_spec.format # "" THEN layout_spec.format ELSE "1080x1080" >>

run_imageops_agent(selected_formats, layout_spec) ==
    LET fmts == OutputFormats(selected_formats, layout_spec)
    IN  [i \in 1..Len(fmts) |-> [format |-> fmts[i], exported |-> FALSE]]

imageops_node_outputs(outs, selected_formats) ==
    [outs EXCEPT !.artifacts = @ \o run_imageops_agent(selected_formats, outs.layout.spec)]

imageops_node_pipeline(pl) == [pl EXCEPT !.agents_run = Append(@, "imageops")]

\* nodes_dummy.compliance_node: the status it writes to the three places
compliance_node_status(outs) ==
    IF outs.layout.decision \in {"OK", "WARN"}
    THEN "PASS"
    ELSE run_compliance_agent(outs).status

compliance_node_outputs(outs) ==
    [outs EXCEPT !.compliance = [status |-> compliance_node_status(outs),
                                 issues |-> run_compliance_agent(outs).issues]]

compliance_node_pipeline(pl, outs) ==
    [pl EXCEPT !.agents_run = Append(@, "compliance"),
               !.routing.compliance_result = compliance_node_status(outs)]

\* the notes run_exporter_agent extends outputs.summary.export_notes with: one
\* when there is no artifact, else the size note of each artifact
ExportNotes(artifacts) ==
    IF artifacts = << >> THEN << "nothing to export" >>
    ELSE [i \in 1..Len(artifacts) |-> artifacts[i].format]

\* exporter_node and run_exporter_agent: artifacts are annotated in place and
\* the export notes are added to outputs.summary
exporter_node_outputs(outs) ==
    [outs EXCEPT !.artifacts = [i \in 1..Len(@) |-> [@[i] EXCEPT !.exported = TRUE]],
                 !.summary.export_notes = @ \o ExportNotes(outs.artifacts)]

exporter_node_pipeline(pl, outs) ==
    LET run == [pl EXCEPT !.agents_run = Append(@, "exporter")]
    IN  IF outs.artifacts = << >> THEN run
        ELSE [run EXCEPT !.routing.exporter = "OK"]

\* mutant: a message is written only for a result the summarizer knows
SummaryMessageKnownOnly(cr) ==
    CASE cr = "PASS" -> "passed compliance"
      [] cr = "WARN" -> "compliance warnings to review"
      [] cr = "HARD_FAIL" -> "need fixes before export"
      [] OTHER -> ""

\* run_summarizer_agent: the message by compliance_result
SummaryMessage(cr) ==
    CASE cr = "PASS" -> "passed compliance"
      [] cr = "WARN" -> "compliance warnings to review"
      [] cr = "HARD_FAIL" -> "need fixes before export"
      [] OTHER -> "run completed"

summarizer_node_outputs(outs, cr) ==
    [outs EXCEPT !.summary.message = SummaryMessage(cr)]

summarizer_node_pipeline(pl) ==
    [pl EXCEPT !.agents_run = Append(@, "summarizer"),
               !.routing.summarizer = "OK"]

(***************************************************************************)
(* The geometry of the compliance checks (agents/compliance_agent.py).     *)
(* Coordinates are whole numbers of 1/GeoGrid of the canvas: these are     *)
(* binary fractions, on which the float arithmetic of the code is exact.   *)
(* Edges are kept doubled (x - w/2 becomes 2x - w) and areas in squares of *)
(* half a grid step, so that halves stay whole numbers.                    *)
(***************************************************************************)
GeoGrid == 8

Max(a, b) == IF a > b THEN a ELSE b

\* safe-zone margins in grid steps
Margins(t, b, l, r) == [top |-> t, bottom |-> b, left |-> l, right |-> r]

\* mutant: (x, y) is taken as the top-left corner of the rect
_rect_inside_safe_top_left(rect, safe) ==
    /\ 2 * rect.x >= 2 * safe.left
    /\ 2 * rect.x + 2 * rect.w <= 2 * (GeoGrid - safe.right)
    /\ 2 * rect.y >= 2 * safe.top
    /\ 2 * rect.y + 2 * rect.h <= 2 * (GeoGrid - safe.bottom)

_rect_inside_safe(rect, safe) ==
    LET left   == 2 * rect.x - rect.w
        right  == 2 * rect.x + rect.w
        top    == 2 * rect.y - rect.h
        bottom == 2 * rect.y + rect.h
    IN  /\ left >= 2 * safe.left
        /\ right <= 2 * (GeoGrid - safe.right)
        /\ top >= 2 * safe.top
        /\ bottom <= 2 * (GeoGrid - safe.bottom)

\* mutant: the intersection is closed by a's lower edge instead of the nearer one
_overlap_to_a(a, b) ==
    LET ax1 == 2 * a.x - a.w
        ax2 == 2 * a.x + a.w
        ay1 == 2 * a.y - a.h
        ay2 == 2 * a.y + a.h
        bx1 == 2 * b.x - b.w
        bx2 == 2 * b.x + b.w
        by1 == 2 * b.y - b.h
        ix1 == Max(ax1, bx1)
        iy1 == Max(ay1, by1)
        ix2 == Min(ax2, bx2)
        iy2 == ay2
    IN  IF ix2 <= ix1 \/ iy2 <= iy1 THEN 0 ELSE (ix2 - ix1) * (iy2 - iy1)

\* mutant: the product is returned without the test for an empty intersection
_overlap_unguarded(a, b) ==
    LET ix1 == Max(2 * a.x - a.w, 2 * b.x - b.w)
        iy1 == Max(2 * a.y - a.h, 2 * b.y - b.h)
        ix2 == Min(2 * a.x + a.w, 2 * b.x + b.w)
        iy2 == Min(2 * a.y + a.h, 2 * b.y + b.h)
    IN  (ix2 - ix1) * (iy2 - iy1)

_overlap(a, b) ==
    LET ax1 == 2 * a.x - a.w
        ax2 == 2 * a.x + a.w
        ay1 == 2 * a.y - a.h
        ay2 == 2 * a.y + a.h
        bx1 == 2 * b.x - b.w
        bx2 == 2 * b.x + b.w
        by1 == 2 * b.y - b.h
        by2 == 2 * b.y + b.h
        ix1 == Max(ax1, bx1)
        iy1 == Max(ay1, by1)
        ix2 == Min(ax2, bx2)
        iy2 == Min(ay2, by2)
    IN  IF ix2 <= ix1 \/ iy2 <= iy1 THEN 0 ELSE (ix2 - ix1) * (iy2 - iy1)

_area(rect) == (2 * Max(0, rect.w)) * (2 * Max(0, rect.h))

\* a rect of the grid on the scale of the layout planner
ToUnit(rect) == [f \in DOMAIN rect |-> rect[f] * (Unit \div GeoGrid)]

\* RectN: x, y, w and h are each between 0 and 1
GridRects(coords, extents) == [x : coords, y : coords, w : extents, h : extents]

\* SafeZones: each margin is between 0 and 0.5
GridMargins(ms) == [top : ms, bottom : ms, left : ms, right : ms]

(***************************************************************************)
(* run_compliance_checks (agents/compliance_agent.py) on a layout: safe    *)
(* zones, if any, and layers.  A layer is identified by its place in the   *)
(* list; layer_id 0 stands for no layer.  The score is in hundredths.      *)
(***************************************************************************)
OverlapHardFailPct == 35
OverlapWarnPct == 15
PackshotMinAreaPct == 8
MinFontWeight == 600
MinLegalFontWeight == 400
DefaultFontWeight == 700
HardFailPenalty == 25
WarnPenalty == 8

LayerDict(type, rect, critical, font_weight) ==
    [type |-> type, rect |-> rect, critical |-> critical, font_weight |-> font_weight]

ComplianceIssue(code, severity, layer_id) ==
    [code |-> code, severity |-> severity, layer_id |-> layer_id]

RECURSIVE Flatten(_)
Flatten(ss) == IF ss = << >> THEN << >> ELSE Head(ss) \o Flatten(Tail(ss))

\* 1) safe-zone containment for critical layers
containment_issues(ls, safe) ==
    Flatten([i \in 1..Len(ls) |->
        IF ~ls[i].critical THEN << >>
        ELSE IF ls[i].rect = None
             THEN <<ComplianceIssue("RECT_MISSING", "HARD_FAIL", i)>>
        ELSE IF ~_rect_inside_safe(ls[i].rect[1], safe)
             THEN <<ComplianceIssue("OUTSIDE_SAFEZONE", "HARD_FAIL", i)>>
        ELSE << >>])

\* 2) font weight of text layers
font_issues(ls) ==
    Flatten([i \in 1..Len(ls) |->
        IF /\ ls[i].type \in {"headline", "subhead", "cta", "legal", "badge"}
           /\ ls[i].font_weight <
                  (IF ls[i].type = "legal" THEN MinLegalFontWeight ELSE MinFontWeight)
        THEN <<ComplianceIssue("FONT_TOO_LIGHT", "WARN", i)>>
        ELSE << >>])

\* by_type.get("packshot", [])
packshots(ls) == {i \in 1..Len(ls) : ls[i].type = "packshot"}

\* _area(x.get("rect", {"w": 0, "h": 0}))
rect_area(l) == IF l.rect = None THEN 0 ELSE _area(l.rect[1])

\* max(packshots, key=area): the first packshot of the largest area
largest_packshot(ls) ==
    CHOOSE i \in packshots(ls) :
        \A j \in packshots(ls) :
            \/ rect_area(ls[j]) < rect_area(ls[i])
            \/ rect_area(ls[j]) = rect_area(ls[i]) /\ i <= j

\* 3) packshot existence and size
packshot_issues(ls) ==
    IF packshots(ls) = {}
    THEN <<ComplianceIssue("PACKSHOT_MISSING", "HARD_FAIL", 0)>>
    ELSE IF rect_area(ls[largest_packshot(ls)]) * 100
                < PackshotMinAreaPct * (4 * GeoGrid * GeoGrid)
         THEN <<ComplianceIssue("PACKSHOT_TOO_SMALL", "WARN", largest_packshot(ls))>>
    ELSE << >>

\* the layers the packshot is compared with
overlap_layers(ls) ==
    {i \in 1..Len(ls) : ls[i].type \in {"cta", "headline", "subhead", "badge"}}

\* 4) _overlap(prect, rect) reads x, y, w and h of both rects: KeyError when
\* the packshot or the layer carries no rect
overlap_raises(ls) ==
    /\ packshots(ls) # {}
    /\ \E i \in overlap_layers(ls) :
          ls[largest_packshot(ls)].rect = None \/ ls[i].rect = None

\* mutant: a fraction of exactly 0.35 is already a HARD_FAIL
overlap_issues_from_threshold(ls) ==
    IF packshots(ls) = {} THEN << >>
    ELSE
    Flatten([i \in 1..Len(ls) |->
        IF i \notin overlap_layers(ls) THEN << >>
        ELSE LET ov == _overlap(ls[largest_packshot(ls)].rect[1], ls[i].rect[1])
                 ar == _area(ls[i].rect[1])
             IN  IF ov <= 0 THEN << >>
                 ELSE IF ov * 100 >= OverlapHardFailPct * ar
                      THEN <<ComplianceIssue("OVERLAP_TEXT_PACKSHOT", "HARD_FAIL", i)>>
                 ELSE IF ov * 100 > OverlapWarnPct * ar
                      THEN <<ComplianceIssue("OVERLAP_TEXT_PACKSHOT", "WARN", i)>>
                 ELSE << >>])

\* 4) overlap of the largest packshot with cta and text, when nothing raises
overlap_issues(ls) ==
    IF packshots(ls) = {} THEN << >>
    ELSE
    Flatten([i \in 1..Len(ls) |->
        IF i \notin overlap_layers(ls) THEN << >>
        ELSE LET ov == _overlap(ls[largest_packshot(ls)].rect[1], ls[i].rect[1])
                 ar == _area(ls[i].rect[1])
             IN  IF ov <= 0 THEN << >>
                 ELSE IF ov * 100 > OverlapHardFailPct * ar
                      THEN <<ComplianceIssue("OVERLAP_TEXT_PACKSHOT", "HARD_FAIL", i)>>
                 ELSE IF ov * 100 > OverlapWarnPct * ar
                      THEN <<ComplianceIssue("OVERLAP_TEXT_PACKSHOT", "WARN", i)>>
                 ELSE << >>])

\* "Simple score"
checks_score(issues) ==
    LET hard == Cardinality({i \in 1..Len(issues) : issues[i].severity = "HARD_FAIL"})
        rest == Len(issues) - hard
    IN  Max(0, Min(100, 100 - HardFailPenalty * hard - WarnPenalty * rest))

run_compliance_checks(lj) ==
    IF lj.safe_zones = None
    THEN [raised |-> FALSE, status |-> "HARD_FAIL", score |-> 0,
          issues |-> <<ComplianceIssue("SAFEZONE_MISSING", "HARD_FAIL", 0)>>]
    ELSE IF overlap_raises(lj.layers)
    THEN [raised |-> TRUE, status |-> "", score |-> 0, issues |-> << >>]
    ELSE LET issues == containment_issues(lj.layers, lj.safe_zones[1])
                       \o font_issues(lj.layers)
                       \o packshot_issues(lj.layers)
                       \o overlap_issues(lj.layers)
         IN  [raised |-> FALSE, status |-> ChecksStatus(issues),
              score |-> checks_score(issues), issues |-> issues]

\* the layers a layout is made of: packshots, cta, headlines, logos and a
\* legal line, with and without rect, inside and outside the safe zone, and
\* cta rects that the packshot at the centre covers fully, by 0.35, by 0.25
\* and by 0.15, and one that only touches it
LayerChoices ==
    {LayerDict("packshot", r, TRUE, DefaultFontWeight) :
        r \in {Some(RectN(4, 4, 4, 4)), Some(RectN(2, 2, 2, 2)), None}}
    \cup {LayerDict("cta", r, TRUE, DefaultFontWeight) :
        r \in {Some(RectN(4, 4, 1, 1)), Some(RectN(5, 2, 5, 2)), Some(RectN(7, 4, 4, 1)),
               Some(RectN(7, 2, 5, 2)), Some(RectN(7, 7, 2, 2)), None}}
    \cup {LayerDict("headline", Some(RectN(4, 0, 4, 1)), TRUE, 300),
          LayerDict("headline", Some(RectN(4, 0, 4, 1)), FALSE, DefaultFontWeight),
          LayerDict("headline", None, TRUE, DefaultFontWeight),
          LayerDict("headline", None, FALSE, DefaultFontWeight)}
    \cup {LayerDict("logo", Some(RectN(2, 2, 1, 1)), TRUE, DefaultFontWeight),
          LayerDict("logo", Some(RectN(0, 0, 1, 1)), TRUE, DefaultFontWeight),
          LayerDict("logo", None, TRUE, DefaultFontWeight),
          LayerDict("logo", None, FALSE, DefaultFontWeight)}
    \cup {LayerDict("legal", Some(RectN(4, 6, 4, 1)), FALSE, 300)}

(***************************************************************************)
(* The layout planner on every platform and style hint, and                *)
(* run_compliance_checks on the layers it plans.  The planned rects are on *)
(* the scale of the planner (Unit is 1.0); areas are products of two such  *)
(* numbers and are kept as two limbs, hi * WideBase^2 + lo.                *)
(***************************************************************************)
WideBase == 10000

Wide(hi, lo) == [hi |-> hi, lo |-> lo]

\* a * b for 0 <= a, b < WideBase^2
WideMul(a, b) ==
    LET a1 == a \div WideBase
        a0 == a % WideBase
        b1 == b \div WideBase
        b0 == b % WideBase
        p1 == a1 * b0 + a0 * b1
        lo == (a0 * b0) + ((p1 % WideBase) * WideBase)
    IN  Wide((a1 * b1) + (p1 \div WideBase) + (lo \div (WideBase * WideBase)),
             lo % (WideBase * WideBase))

\* n * k for 0 <= k <= 100
WideScale(n, k) ==
    LET t == (n.lo % WideBase) * k
        u == ((n.lo \div WideBase) * k) + (t \div WideBase)
    IN  Wide(n.hi * k + (u \div WideBase), ((u % WideBase) * WideBase) + (t % WideBase))

WideGreater(m, n) == m.hi > n.hi \/ (m.hi = n.hi /\ m.lo > n.lo)

\* _extract_style_hints: what a prompt can make of the intent
LayoutStyles == {"clean", "bold", "premium"}
PackshotPriorities == {"normal", "high"}

\* PLATFORM_PRESETS.get(platform, PLATFORM_PRESETS["instagram_feed"])
PresetOf(platform) == IF platform \in Platforms THEN platform ELSE "instagram_feed"

\* font_weight of the TextStyle the planner gives a layer
planned_font_weight(type, layout_style) ==
    CASE type = "headline" -> IF layout_style \in {"bold", "premium"} THEN 800 ELSE 700
      [] type = "cta" -> 800
      [] type = "value_tile" -> 900
      [] OTHER -> DefaultFontWeight

\* LayoutOutput.model_dump() of _derive_layout_for_platform: decision, safe
\* zones and the layers as dicts
planned_layout(platform, layout_style, priority) ==
    LET ls == PlannedLayers(PresetOf(platform), priority)
    IN  [decision |-> _derive_layout_for_platform(PresetOf(platform), priority),
         safe_zones |-> PLATFORM_PRESETS[PresetOf(platform)].safe_zones,
         layers |-> [i \in 1..Len(ls) |->
                        LayerDict(ls[i].type, Some(ls[i].rect), ls[i].critical,
                                  planned_font_weight(ls[i].type, layout_style))]]

\* _overlap on planned rects
planned_overlap(a, b) ==
    LET ax1 == a.x - a.w \div 2
        ax2 == a.x + a.w \div 2
        ay1 == a.y - a.h \div 2
        ay2 == a.y + a.h \div 2
        bx1 == b.x - b.w \div 2
        bx2 == b.x + b.w \div 2
        by1 == b.y - b.h \div 2
        by2 == b.y + b.h \div 2
        ix1 == Max(ax1, bx1)
        iy1 == Max(ay1, by1)
        ix2 == Min(ax2, bx2)
        iy2 == Min(ay2, by2)
    IN  IF ix2 <= ix1 \/ iy2 <= iy1 THEN Wide(0, 0) ELSE WideMul(ix2 - ix1, iy2 - iy1)

\* _area on planned rects
planned_area(rect) == WideMul(Max(0, rect.w), Max(0, rect.h))

\* 1) safe-zone containment, on planned layers
planned_containment_issues(ls, safe) ==
    Flatten([i \in 1..Len(ls) |->
        IF ~ls[i].critical THEN << >>
        ELSE IF ls[i].rect = None
             THEN <<ComplianceIssue("RECT_MISSING", "HARD_FAIL", i)>>
        ELSE IF ~_inside_safe(ls[i].rect[1], safe)
             THEN <<ComplianceIssue("OUTSIDE_SAFEZONE", "HARD_FAIL", i)>>
        ELSE << >>])

\* max(packshots, key=area), on planned layers
planned_largest_packshot(ls) ==
    CHOOSE i \in packshots(ls) :
        \A j \in packshots(ls) :
            \/ WideGreater(planned_area(ls[i].rect[1]), planned_area(ls[j].rect[1]))
            \/ ~WideGreater(planned_area(ls[j].rect[1]), planned_area(ls[i].rect[1])) /\ i <= j

\* 3) packshot existence and size, on planned layers
planned_packshot_issues(ls) ==
    IF packshots(ls) = {}
    THEN <<ComplianceIssue("PACKSHOT_MISSING", "HARD_FAIL", 0)>>
    ELSE IF WideGreater(WideScale(WideMul(Unit, Unit), PackshotMinAreaPct),
                        WideScale(planned_area(ls[planned_largest_packshot(ls)].rect[1]), 100))
         THEN <<ComplianceIssue("PACKSHOT_TOO_SMALL", "WARN", planned_largest_packshot(ls))>>
    ELSE << >>

\* 4) overlap of the packshot with cta and text, on planned layers
planned_overlap_issues(ls) ==
    IF packshots(ls) = {} THEN << >>
    ELSE
    Flatten([i \in 1..Len(ls) |->
        IF i \notin overlap_layers(ls) THEN << >>
        ELSE LET ov == planned_overlap(ls[planned_largest_packshot(ls)].rect[1], ls[i].rect[1])
                 ar == planned_area(ls[i].rect[1])
             IN  IF ~WideGreater(ov, Wide(0, 0)) THEN << >>
                 ELSE IF WideGreater(WideScale(ov, 100), WideScale(ar, OverlapHardFailPct))
                      THEN <<ComplianceIssue("OVERLAP_TEXT_PACKSHOT", "HARD_FAIL", i)>>
                 ELSE IF WideGreater(WideScale(ov, 100), WideScale(ar, OverlapWarnPct))
                      THEN <<ComplianceIssue("OVERLAP_TEXT_PACKSHOT", "WARN", i)>>
                 ELSE << >>])

\* run_compliance_checks on the spec the planner dumped: safe zones are
\* there and every layer carries a rect
run_compliance_checks_planned(lay) ==
    LET issues == planned_containment_issues(lay.layers, lay.safe_zones)
                  \o font_issues(lay.layers)
                  \o planned_packshot_issues(lay.layers)
                  \o planned_overlap_issues(lay.layers)
    IN  [raised |-> FALSE, status |-> ChecksStatus(issues),
         score |-> checks_score(issues), issues |-> issues]

\* no geometry function has been given anything
GeomInit ==
    /\ rects = << >>
    /\ margins = None
    /\ layout_json = None
    /\ plan = None
    /\ result = None

(***************************************************************************)
(* The session store (db/repositories.py) and the turns run_turn runs on   *)
(* it one after the other (session/session_manager.py).                    *)
(***************************************************************************)
SessionIds == {"sess_1", "sess_2"}

\* MemoryConfig(): the defaults
DefaultMaxMessages == 20

DefaultMaxCharsTotal == 12000

MemoryConfig == [max_messages |-> DefaultMaxMessages, max_chars_total |-> DefaultMaxCharsTotal]

\* SessionMemoryStore.init_memory: no message yet
init_memory == [messages |-> << >>]

\* the service runs this many run_turn executions at a time
Workers == {"w1", "w2"}

NoTurn == [session_id |-> "", turn_id |-> 0, turn_index |-> 0,
           memory |-> [summary |-> "", last_updated_turn |-> 0], message |-> ""]

\* a run_turn execution that has not started
IdleWorker == [pc |-> "idle", st |-> NoTurn, current_count |-> 0]

StoreInit ==
    /\ sessions = [sid \in SessionIds |-> None]
    /\ turns = << >>
    /\ active = NoTurn
    /\ workers = [w \in Workers |-> IdleWorker]
    /\ memory_config = MemoryConfig
    /\ memory = init_memory
    /\ appended = << >>

\* SessionRepo.create_session: the document inserted
NewSessionDoc ==
    [memory |-> [summary |-> "", last_updated_turn |-> 0],
     counters |-> [turn_count |-> 0],
     pointers |-> [last_turn_id |-> None]]

\* core.ids.new_turn_id: a token no other turn carries, here the least unused number
new_turn_id(used) ==
    CHOOSE n \in 1..(Cardinality(used) + 1) :
        n \notin used /\ \A m \in 1..(n - 1) : m \in used

\* the turn ids taken by stored turns and by the turns being run
UsedTurnIds ==
    {turns[i].turn_id : i \in 1..Len(turns)}
        \cup {workers[w].st.turn_id : w \in Workers} \cup {active.turn_id}

\* mutant: the last turn of any session is taken
get_last_turn_any_session(docs, sid) ==
    IF docs = << >> THEN None
    ELSE Some(CHOOSE d \in {docs[i] : i \in 1..Len(docs)} :
                \A e \in {docs[i] : i \in 1..Len(docs)} : e.turn_index <= d.turn_index)

\* TurnRepo.get_last_turn: find_one by session_id, sorted by turn_index descending
get_last_turn(docs, sid) ==
    LET mine == {docs[i] : i \in {j \in 1..Len(docs) : docs[j].session_id = sid}}
    IN  IF mine = {} THEN None
        ELSE Some(CHOOSE d \in mine : \A e \in mine : e.turn_index <= d.turn_index)

\* SessionManager.next_turn_index
next_turn_index(docs, sid) ==
    IF get_last_turn(docs, sid) = None THEN 1
    ELSE get_last_turn(docs, sid)[1].turn_index + 1

\* the unique index on (session_id, turn_index) rejects the insert of doc
DuplicateKey(docs, doc) ==
    \E i \in 1..Len(docs) :
        docs[i].session_id = doc.session_id /\ docs[i].turn_index = doc.turn_index

\* persist_turn: new_count = max(current_count, state.turn_index)
new_count(current_count, st) ==
    IF current_count > st.turn_index THEN current_count ELSE st.turn_index

\* SessionRepo.touch: one $set of the pointer and the counter
touch(doc, last_turn_id, turn_count) ==
    [doc EXCEPT !.pointers.last_turn_id = Some(last_turn_id),
                !.counters.turn_count = turn_count]

\* persist_turn on the session document when nothing runs between its steps
persist_session(doc, st) ==
    touch(doc, st.turn_id, new_count(doc.counters.turn_count, st))

\* session_manager.hydrate_state: identity, index and memory of the new turn
hydrate_turn(session_doc, docs, sid, tid) ==
    [session_id |-> sid,
     turn_id |-> tid,
     turn_index |-> next_turn_index(docs, sid),
     memory |-> [summary |-> session_doc.memory.summary,
                 last_updated_turn |-> session_doc.memory.last_updated_turn],
     message |-> ""]

\* turn_builder.build_turn_doc: identity and the summary of outputs
build_turn_doc(st) ==
    [turn_id |-> st.turn_id, session_id |-> st.session_id, turn_index |-> st.turn_index,
     message |-> st.message]

\* run_summarizer_agent on the turn: the message and the rolling memory
run_summarizer_agent(st, cr) ==
    [st EXCEPT !.message = SummaryMessage(cr),
               !.memory = [summary |-> SummaryMessage(cr),
                           last_updated_turn |-> st.turn_index]]

(***************************************************************************)
(* The state a turn starts in.  run_turn hydrates it (hydrate_state); the  *)
(* graph also accepts a state whose routing already records earlier        *)
(* phases' results with the layout they left (route_after_master).         *)
(***************************************************************************)
ConfigChoices ==
    {[max_tool_loops |-> None]} \cup {[max_tool_loops |-> Some(n)] : n \in 0..MaxConfigLoops}

FormatChoices == { << >>, << "1080x1080" >>, << "1080x1080", "1080x1920" >> }

hydrate_state(cfg) ==
    IF cfg.max_tool_loops = None THEN DefaultMaxToolLoops ELSE cfg.max_tool_loops[1]

NoLayout == [decision |-> "", spec |-> EmptySpec]

\* layouts an earlier phase may have left in outputs.layout
PriorLayouts ==
    { NoLayout,
      [decision |-> "OK", spec |-> PlannedSpec("instagram_feed")],
      [decision |-> "OK",
       spec |-> [PlannedSpec("instagram_feed") EXCEPT !.min_font_px = Some(8)]],
      [decision |-> "",
       spec |-> [PlannedSpec("instagram_feed") EXCEPT !.min_font_px = Some(8)]],
      [decision |-> "OK",
       spec |-> [PlannedSpec("instagram_story") EXCEPT !.value_tile = "notext"]],
      [decision |-> "WARN",
       spec |-> [PlannedSpec("facebook_feed") EXCEPT !.packshot = TRUE,
                                                     !.min_padding_px = Some(4),
                                                     !.same_anchor = TRUE]],
      [decision |-> "",
       spec |-> [PlannedSpec("facebook_feed") EXCEPT !.packshot = TRUE,
                                                     !.value_tile = "text"]] }

\* (copy_result, layout_result, outputs.copy_out, outputs.layout) at the start
StartChoices ==
    { [copy_result |-> "", layout_result |-> "",
       copy_out |-> [decision |-> "", text |-> ""], layout |-> NoLayout],
      [copy_result |-> "PASS", layout_result |-> "",
       copy_out |-> [decision |-> "PASS", text |-> "plain"], layout |-> NoLayout],
      [copy_result |-> "", layout_result |-> "OK",
       copy_out |-> [decision |-> "", text |-> ""],
       layout |-> [decision |-> "OK", spec |-> PlannedSpec("instagram_feed")]] }
    \cup
    { [copy_result |-> "PASS", layout_result |-> "OK",
       copy_out |-> [decision |-> "PASS", text |-> t], layout |-> l]
        : t \in {"", "plain"}, l \in PriorLayouts }

\* the state dict run_turn hands to the graph
HydratedState(start, cfg, fmts, platform, priority) ==
    [session_config |-> cfg,
     ui_context |-> [selected_formats |-> fmts, platform |-> platform],
     packshot_priority |-> priority,
     max_tool_loops |-> hydrate_state(cfg),
     pipeline |-> [agents_run |-> << >>, tool_loops |-> 0,
                   routing |-> [copy_result |-> start.copy_result,
                                layout_result |-> start.layout_result,
                                compliance_result |-> "",
                                exporter |-> "", summarizer |-> ""]],
     outputs |-> [copy_out |-> start.copy_out, layout |-> start.layout,
                  compliance |-> [status |-> "", issues |-> << >>],
                  artifacts |-> << >>, summary |-> [message |-> "", export_notes |-> << >>]],
     compliance_result |-> "UNKNOWN"]

\* CreativeBuilderState with every field at its default
DefaultState ==
    HydratedState([copy_result |-> "", layout_result |-> "",
                   copy_out |-> [decision |-> "", text |-> ""], layout |-> NoLayout],
                  [max_tool_loops |-> None], << >>, "instagram_feed", "normal")

TurnInit ==
    /\ session_config = DefaultState.session_config
    /\ ui_context = DefaultState.ui_context
    /\ packshot_priority = DefaultState.packshot_priority
    /\ max_tool_loops = DefaultState.max_tool_loops
    /\ pipeline = DefaultState.pipeline
    /\ outputs = DefaultState.outputs
    /\ compliance_result = DefaultState.compliance_result
    /\ invoked = << >>
    /\ errors = << >>
    /\ now = 0
    /\ validated = << >>
    /\ raw = None
    /\ StoreInit

Init ==
    /\ pc = "START"
    /\ TurnInit
    /\ GeomInit
    /\ issues_in = << >>
    /\ resolved = [resolve_status |-> "", run_compliance_checks |-> ""]

inputs == <<session_config, ui_context, packshot_priority, max_tool_loops>>

(***************************************************************************)
(* The graph (build_graph): a node runs, then its router or fixed edge     *)
(* names the next node.                                                    *)
(***************************************************************************)
\* the record of invocations, kept up to MaxInvoked entries
Record(seq, name) == IF Len(seq) < MaxInvoked THEN Append(seq, name) ELSE seq

\* run_turn: hydrate the state and enter the graph at master
HydrateState ==
    /\ pc = "START"
    /\ \E start \in StartChoices, cfg \in ConfigChoices, fmts \in FormatChoices,
          platform \in Platforms, priority \in {"normal", "high"} :
          LET st == HydratedState(start, cfg, fmts, platform, priority)
          IN  /\ session_config' = st.session_config
              /\ ui_context' = st.ui_context
              /\ packshot_priority' = st.packshot_priority
              /\ max_tool_loops' = st.max_tool_loops
              /\ pipeline' = st.pipeline
              /\ outputs' = st.outputs
              /\ compliance_result' = st.compliance_result
    /\ pc' = "master"
    /\ UNCHANGED <<invoked, aux>>

MasterNode ==
    /\ pc = "master"
    /\ pipeline' = master_node(pipeline)
    /\ invoked' = Record(invoked, "master")
    /\ pc' = "route_after_master"
    /\ UNCHANGED <<inputs, outputs, compliance_result, aux>>

RouteAfterMaster ==
    /\ pc = "route_after_master"
    /\ pc' = route_after_master(pipeline).next
    /\ pipeline' = route_after_master(pipeline).pipeline
    /\ UNCHANGED <<inputs, outputs, compliance_result, invoked, aux>>

CopyValidatorNode ==
    /\ pc = "copy_validator"
    /\ \E rawtext \in RawTexts :
          LET out == parse_copy_output(rawtext)
          IN  /\ ~out.raised
              /\ raw' = Some(rawtext)
              /\ outputs' = run_copy_validator_outputs(outputs, out.decision, out.text)
              /\ pipeline' = run_copy_validator_pipeline(pipeline, out.decision)
    /\ invoked' = Record(invoked, "copy_validator")
    /\ pc' = "route_after_copy"
    /\ UNCHANGED <<inputs, compliance_result, issues_in, resolved, errors, now, validated, store, geom>>

RouteAfterCopy ==
    /\ pc = "route_after_copy"
    /\ pc' = route_after_copy(pipeline, max_tool_loops, session_config).next
    /\ pipeline' = route_after_copy(pipeline, max_tool_loops, session_config).pipeline
    /\ UNCHANGED <<inputs, outputs, compliance_result, invoked, aux>>

LayoutPlannerNode ==
    /\ pc = "layout_planner"
    /\ outputs' = run_layout_planner_outputs(outputs, ui_context.platform, packshot_priority)
    /\ pipeline' = run_layout_planner_pipeline(pipeline, ui_context.platform, packshot_priority)
    /\ invoked' = Record(invoked, "layout_planner")
    /\ pc' = "route_after_layout"
    /\ UNCHANGED <<inputs, compliance_result, aux>>

RouteAfterLayout ==
    /\ pc = "route_after_layout"
    /\ pc' = route_after_layout(pipeline, max_tool_loops, session_config).next
    /\ pipeline' = route_after_layout(pipeline, max_tool_loops, session_config).pipeline
    /\ UNCHANGED <<inputs, outputs, compliance_result, invoked, aux>>

ImageopsNode ==
    /\ pc = "imageops"
    /\ outputs' = imageops_node_outputs(outputs, ui_context.selected_formats)
    /\ pipeline' = imageops_node_pipeline(pipeline)
    /\ invoked' = Record(invoked, "imageops")
    /\ pc' = "compliance"
    /\ UNCHANGED <<inputs, compliance_result, aux>>

ComplianceNode ==
    /\ pc = "compliance"
    /\ compliance_result' = compliance_node_status(outputs)
    /\ outputs' = compliance_node_outputs(outputs)
    /\ pipeline' = compliance_node_pipeline(pipeline, outputs)
    /\ invoked' = Record(invoked, "compliance")
    /\ pc' = "route_after_compliance"
    /\ UNCHANGED <<inputs, aux>>

RouteAfterCompliance ==
    LET r == route_after_compliance(pipeline, compliance_result, outputs,
                                    max_tool_loops, session_config)
    IN  /\ pc = "route_after_compliance"
        /\ pc' = r.next
        /\ pipeline' = r.pipeline
        /\ UNCHANGED <<inputs, outputs, compliance_result, invoked, aux>>

\* mutant: the edge out of exporter goes to the end of the graph
ExporterNodeToEnd ==
    /\ pc = "exporter"
    /\ outputs' = exporter_node_outputs(outputs)
    /\ pipeline' = exporter_node_pipeline(pipeline, outputs)
    /\ invoked' = Record(invoked, "exporter")
    /\ pc' = "END"
    /\ UNCHANGED <<inputs, compliance_result, aux>>

ExporterNode ==
    /\ pc = "exporter"
    /\ outputs' = exporter_node_outputs(outputs)
    /\ pipeline' = exporter_node_pipeline(pipeline, outputs)
    /\ invoked' = Record(invoked, "exporter")
    /\ pc' = "summarizer"
    /\ UNCHANGED <<inputs, compliance_result, aux>>

\* mutant: a turn that has not exported yet goes from summarizer to exporter
SummarizerNodeThenExporter ==
    /\ pc = "summarizer"
    /\ outputs' = summarizer_node_outputs(outputs, compliance_result)
    /\ pipeline' = summarizer_node_pipeline(pipeline)
    /\ invoked' = Record(invoked, "summarizer")
    /\ pc' = IF \E i \in 1..Len(invoked) : invoked[i] = "exporter" THEN "END" ELSE "exporter"
    /\ UNCHANGED <<inputs, compliance_result, aux>>

SummarizerNode ==
    /\ pc = "summarizer"
    /\ outputs' = summarizer_node_outputs(outputs, compliance_result)
    /\ pipeline' = summarizer_node_pipeline(pipeline)
    /\ invoked' = Record(invoked, "summarizer")
    /\ pc' = "END"
    /\ UNCHANGED <<inputs, compliance_result, aux>>

Next ==
    \/ HydrateState
    \/ MasterNode
    \/ RouteAfterMaster
    \/ CopyValidatorNode
    \/ RouteAfterCopy
    \/ LayoutPlannerNode
    \/ RouteAfterLayout
    \/ ImageopsNode
    \/ ComplianceNode
    \/ RouteAfterCompliance
    \/ ExporterNode
    \/ SummarizerNode

Spec == Init /\ [][Next]_vars

\* the graph runs a turn to the end: it does not stop while a node is due
FairSpec == Spec /\ WF_vars(Next)

(***************************************************************************)
(* A turn in which a collaborator fails: an exception raised in a node is  *)
(* caught neither by the node, nor by graph.invoke, nor by run_turn, and   *)
(* leaves run_turn; pc then names the exception.                           *)
(***************************************************************************)
Exceptions == {"APIError", "JSONDecodeError", "RuntimeError"}

\* llm.chat raises, or the second json.loads of run_copy_validator does
CopyValidatorRaises ==
    /\ pc = "copy_validator"
    /\ \/ /\ raw' = None
          /\ pc' = "APIError"
       \/ \E rawtext \in RawTexts :
             /\ parse_copy_output(rawtext).raised
             /\ raw' = Some(rawtext)
             /\ pc' = "JSONDecodeError"
    /\ invoked' = Record(invoked, "copy_validator")
    /\ UNCHANGED <<inputs, pipeline, outputs, compliance_result,
                   issues_in, resolved, errors, now, validated, store, geom>>

\* GeminiImageClient() or client.generate_image raises inside run_imageops_agent,
\* after imageops_node has appended its name
ImageopsRaises ==
    /\ pc = "imageops"
    /\ pipeline' = imageops_node_pipeline(pipeline)
    /\ invoked' = Record(invoked, "imageops")
    /\ pc' = "RuntimeError"
    /\ UNCHANGED <<inputs, outputs, compliance_result, aux>>

FaultNext == Next \/ CopyValidatorRaises \/ ImageopsRaises

FaultSpec == Init /\ [][FaultNext]_vars

(***************************************************************************)
(* The routers on their own: each router applied to every state dict its   *)
(* reads allow (result codes, retry counter, configuration, compliance     *)
(* result and issues), whether or not a turn of the graph produces it.     *)
(***************************************************************************)
CopyResultCodes == {"", "UNKNOWN", "PASS", "WARN", "FAIL", "HARD_FAIL"}

LayoutResultCodes == {"", "UNKNOWN", "OK", "WARN", "FAIL", "HARD_FAIL"}

ComplianceResultCodes == {"", "UNKNOWN", "PASS", "WARN", "HARD_FAIL"}

RecordedIssues ==
    { << >>, << Issue("COPY_EMPTY", "WARN") >>,
      << Issue("COPY_EMPTY", "WARN"), Issue("FONT_TOO_SMALL", "HARD_FAIL") >> }

RouterInit ==
    /\ pc \in {"route_after_master", "route_after_copy", "route_after_layout",
               "route_after_compliance"}
    /\ session_config \in ConfigChoices
    /\ max_tool_loops = hydrate_state(session_config)
    /\ ui_context = DefaultState.ui_context
    /\ packshot_priority = DefaultState.packshot_priority
    /\ \E loops \in 0..MaxToolLoops, copy \in CopyResultCodes, layout \in LayoutResultCodes :
          pipeline = [DefaultState.pipeline EXCEPT !.tool_loops = loops,
                                                  !.routing.copy_result = copy,
                                                  !.routing.layout_result = layout]
    /\ compliance_result \in ComplianceResultCodes
    /\ \E status \in {"", "PASS", "HARD_FAIL"}, issues \in RecordedIssues :
          outputs = [DefaultState.outputs EXCEPT
                        !.compliance = [status |-> status, issues |-> issues]]
    /\ errors = << >>
    /\ now = 0
    /\ validated = << >>
    /\ raw = None
    /\ StoreInit
    /\ GeomInit
    /\ invoked = << CASE pc = "route_after_master" -> "master"
                      [] pc = "route_after_copy" -> "copy_validator"
                      [] pc = "route_after_layout" -> "layout_planner"
                      [] pc = "route_after_compliance" -> "compliance" >>
    /\ issues_in = << >>
    /\ resolved = [resolve_status |-> "", run_compliance_checks |-> ""]

RouterNext == RouteAfterMaster \/ RouteAfterCopy \/ RouteAfterLayout \/ RouteAfterCompliance

RouterSpec == RouterInit /\ [][RouterNext]_vars

(***************************************************************************)
(* Compliance validation on its own: run_compliance_agent run twice on one *)
(* snapshot of outputs.layout and outputs.copy_out, the clock moving on or *)
(* not between the runs.                                                   *)
(***************************************************************************)
Snapshots ==
    { [DefaultState.outputs EXCEPT !.copy_out = [decision |-> "PASS", text |-> t],
                                   !.layout = l] : t \in CopyTexts, l \in PriorLayouts }

ValidateInit ==
    /\ pc = "validate"
    /\ session_config = DefaultState.session_config
    /\ ui_context = DefaultState.ui_context
    /\ packshot_priority = DefaultState.packshot_priority
    /\ max_tool_loops = DefaultState.max_tool_loops
    /\ pipeline = DefaultState.pipeline
    /\ outputs \in Snapshots
    /\ compliance_result = DefaultState.compliance_result
    /\ invoked = << >>
    /\ issues_in = << >>
    /\ resolved = [resolve_status |-> "", run_compliance_checks |-> ""]
    /\ errors = << >>
    /\ now = 0
    /\ validated = << >>
    /\ raw = None
    /\ StoreInit
    /\ GeomInit

RunComplianceAgent ==
    /\ pc = "validate"
    /\ Len(validated) < 2
    /\ \E t \in now..MaxClock :
          /\ now' = t
          /\ validated' = Append(validated, compliance_payload(outputs, t))
    /\ UNCHANGED <<turn, issues_in, resolved, errors, raw, store, geom>>

ValidateSpec == ValidateInit /\ [][RunComplianceAgent]_vars

(***************************************************************************)
(* Turns of sessions run one after the other by run_turn: create the       *)
(* session when none is given, hydrate, run the graph, persist.            *)
(***************************************************************************)
SessionInit ==
    /\ pc = "idle"
    /\ TurnInit
    /\ GeomInit
    /\ issues_in = << >>
    /\ resolved = [resolve_status |-> "", run_compliance_checks |-> ""]

\* run_turn up to hydrate_state, on a new session or one of the existing ones
HydrateTurn ==
    /\ pc = "idle"
    /\ Len(turns) < MaxTurns
    /\ \E sid \in SessionIds :
          LET doc == IF sessions[sid] = None THEN NewSessionDoc ELSE sessions[sid][1]
          IN  /\ sessions' = [sessions EXCEPT ![sid] = Some(doc)]
              /\ active' = hydrate_turn(doc, turns, sid, new_turn_id(UsedTurnIds))
    /\ pc' = "hydrated"
    /\ UNCHANGED <<inputs, pipeline, outputs, compliance_result, invoked,
                   issues_in, resolved, errors, now, validated, raw, turns, workers, memstore, geom>>

\* graph.invoke returns: the summarizer has written the message and the memory
GraphInvoke ==
    /\ pc = "hydrated"
    /\ \E cr \in {"PASS", "WARN", "HARD_FAIL", "UNKNOWN"} :
          active' = run_summarizer_agent(active, cr)
    /\ pc' = "invoked"
    /\ UNCHANGED <<inputs, pipeline, outputs, compliance_result, invoked,
                   issues_in, resolved, errors, now, validated, raw, sessions, turns, workers, memstore, geom>>

\* graph.invoke raises: run_turn ends without persisting the turn
GraphRaises ==
    /\ pc = "hydrated"
    /\ active' = NoTurn
    /\ pc' = "idle"
    /\ UNCHANGED <<inputs, pipeline, outputs, compliance_result, invoked,
                   issues_in, resolved, errors, now, validated, raw, sessions, turns, workers, memstore, geom>>

\* persist_turn: insert the turn document, touch the session
PersistTurn ==
    /\ pc = "invoked"
    /\ turns' = Append(turns, build_turn_doc(active))
    /\ sessions' = [sessions EXCEPT ![active.session_id] =
                        Some(persist_session(@[1], active))]
    /\ active' = NoTurn
    /\ pc' = "idle"
    /\ UNCHANGED <<inputs, pipeline, outputs, compliance_result, invoked,
                   issues_in, resolved, errors, now, validated, raw, workers, memstore, geom>>

SessionNext == HydrateTurn \/ GraphInvoke \/ GraphRaises \/ PersistTurn

SessionSpec == SessionInit /\ [][SessionNext]_vars

(***************************************************************************)
(* Turns run at the same time: each worker is one run_turn execution whose *)
(* reads and writes of the two collections are single steps, with steps of *)
(* other executions between them.  The turns collection carries the unique *)
(* index on (session_id, turn_index) that ensure_indexes creates.          *)
(***************************************************************************)
\* the tuple of what a step of a concurrent execution leaves alone
besides == <<turn, issues_in, resolved, errors, now, validated, raw, active, memstore, geom>>

\* run_turn up to hydrate_state: load_session and get_last_turn
WorkerHydrate(w) ==
    /\ workers[w].pc = "idle"
    /\ Len(turns) < MaxTurns
    /\ \E sid \in SessionIds :
          LET doc == IF sessions[sid] = None THEN NewSessionDoc ELSE sessions[sid][1]
          IN  /\ sessions' = [sessions EXCEPT ![sid] = Some(doc)]
              /\ workers' = [workers EXCEPT ![w] =
                    [pc |-> "hydrated",
                     st |-> hydrate_turn(doc, turns, sid, new_turn_id(UsedTurnIds)),
                     current_count |-> 0]]
    /\ UNCHANGED <<turns, besides>>

\* graph.invoke returns
WorkerGraphInvoke(w) ==
    /\ workers[w].pc = "hydrated"
    /\ \E cr \in {"PASS", "HARD_FAIL"} :
          workers' = [workers EXCEPT ![w].st = run_summarizer_agent(@, cr),
                                     ![w].pc = "invoked"]
    /\ UNCHANGED <<sessions, turns, besides>>

\* persist_turn line 100: insert_turn stores the document
WorkerInsertTurn(w) ==
    /\ workers[w].pc = "invoked"
    /\ ~DuplicateKey(turns, build_turn_doc(workers[w].st))
    /\ turns' = Append(turns, build_turn_doc(workers[w].st))
    /\ workers' = [workers EXCEPT ![w].pc = "inserted"]
    /\ UNCHANGED <<sessions, besides>>

\* persist_turn line 100 and 113-114: the index rejects the document, the
\* DuplicateKeyError leaves persist_turn as TurnPersistenceError
WorkerInsertRaises(w) ==
    /\ workers[w].pc = "invoked"
    /\ DuplicateKey(turns, build_turn_doc(workers[w].st))
    /\ workers' = [workers EXCEPT ![w].pc = "TurnPersistenceError"]
    /\ UNCHANGED <<sessions, turns, besides>>

\* persist_turn lines 103-104: load_session and the count read from it
WorkerLoadSession(w) ==
    /\ workers[w].pc = "inserted"
    /\ workers' = [workers EXCEPT
          ![w].current_count = sessions[workers[w].st.session_id][1].counters.turn_count,
          ![w].pc = "loaded"]
    /\ UNCHANGED <<sessions, turns, besides>>

\* persist_turn lines 105-112: touch with the new count, run_turn returns
WorkerTouch(w) ==
    /\ workers[w].pc = "loaded"
    /\ sessions' = [sessions EXCEPT ![workers[w].st.session_id] =
          Some(touch(@[1], workers[w].st.turn_id,
                     new_count(workers[w].current_count, workers[w].st)))]
    /\ workers' = [workers EXCEPT ![w] = IdleWorker]
    /\ UNCHANGED <<turns, besides>>

\* the failed run_turn is over; the worker takes the next request
WorkerFailed(w) ==
    /\ workers[w].pc = "TurnPersistenceError"
    /\ workers' = [workers EXCEPT ![w] = IdleWorker]
    /\ UNCHANGED <<sessions, turns, besides>>

ConcurrentNext ==
    \E w \in Workers :
        \/ WorkerHydrate(w)
        \/ WorkerGraphInvoke(w)
        \/ WorkerInsertTurn(w)
        \/ WorkerInsertRaises(w)
        \/ WorkerLoadSession(w)
        \/ WorkerTouch(w)
        \/ WorkerFailed(w)

ConcurrentSpec == SessionInit /\ [][ConcurrentNext]_vars

(***************************************************************************)
(* The bounded chat history on its own: SessionMemoryStore.append called   *)
(* again and again on the memory it returned.  A message is its role, its  *)
(* content and its timestamp; the clock gives each append a later one.     *)
(***************************************************************************)
Roles == {"user", "assistant"}

\* contents of 0..MaxContent characters
Contents == {[i \in 1..n |-> "a"] : n \in 0..MaxContent}

\* sum(len(m.content) for m in msgs)
RECURSIVE total_chars(_)
total_chars(msgs) ==
    IF msgs = << >> THEN 0 ELSE Len(Head(msgs).content) + total_chars(Tail(msgs))

\* the slice seq[-n:] for n >= 0: the last n elements, and all of seq for n = 0
SliceFromMinus(seq, n) ==
    IF n = 0 \/ n >= Len(seq) THEN seq ELSE SubSeq(seq, Len(seq) - n + 1, Len(seq))

\* SessionMemoryStore._trim_messages: msgs[-max_messages:] when there are more
_trim_messages(msgs, cfg) ==
    IF Len(msgs) <= cfg.max_messages THEN msgs
    ELSE SliceFromMinus(msgs, cfg.max_messages)

\* SessionMemoryStore._enforce_char_cap: drop the oldest until under the cap
RECURSIVE _enforce_char_cap(_, _)
_enforce_char_cap(msgs, cfg) ==
    IF msgs # << >> /\ total_chars(msgs) > cfg.max_chars_total
    THEN _enforce_char_cap(Tail(msgs), cfg)
    ELSE msgs

\* SessionMemoryStore.append: add the message, trim the window, enforce the cap
append(mem, cfg, msg) ==
    [mem EXCEPT !.messages = _enforce_char_cap(_trim_messages(Append(@, msg), cfg), cfg)]

MemoryInit ==
    /\ pc = "memory"
    /\ session_config = DefaultState.session_config
    /\ ui_context = DefaultState.ui_context
    /\ packshot_priority = DefaultState.packshot_priority
    /\ max_tool_loops = DefaultState.max_tool_loops
    /\ pipeline = DefaultState.pipeline
    /\ outputs = DefaultState.outputs
    /\ compliance_result = DefaultState.compliance_result
    /\ invoked = << >>
    /\ issues_in = << >>
    /\ resolved = [resolve_status |-> "", run_compliance_checks |-> ""]
    /\ errors = << >>
    /\ now = 0
    /\ validated = << >>
    /\ raw = None
    /\ sessions = [sid \in SessionIds |-> None]
    /\ turns = << >>
    /\ active = NoTurn
    /\ workers = [w \in Workers |-> IdleWorker]
    /\ GeomInit
    /\ memory_config \in [max_messages : 0..MaxMessages, max_chars_total : 0..MaxCharsTotal]
    /\ memory = init_memory
    /\ appended = << >>

MemoryAppend ==
    /\ pc = "memory"
    /\ Len(appended) < MaxAppends
    /\ \E role \in Roles, content \in Contents :
          LET msg == [role |-> role, content |-> content, ts |-> Len(appended) + 1]
          IN  /\ memory' = append(memory, memory_config, msg)
              /\ appended' = Append(appended, msg)
    /\ UNCHANGED <<turn, issues_in, resolved, errors, now, validated, raw,
                   sessions, turns, active, workers, memory_config, geom>>

MemorySpec == MemoryInit /\ [][MemoryAppend]_vars

(***************************************************************************)
(* The two containment functions on every rect and safe zone of the grid.  *)
(***************************************************************************)
InsideInit ==
    /\ pc = "inside"
    /\ TurnInit
    /\ issues_in = << >>
    /\ resolved = [resolve_status |-> "", run_compliance_checks |-> ""]
    /\ layout_json = None
    /\ plan = None
    /\ \E r \in GridRects(0..GeoGrid, 0..Min(MaxExtent, GeoGrid)) : rects = <<r>>
    /\ \E m \in GridMargins(0..Min(MaxMargin, GeoGrid \div 2)) : margins = Some(m)
    /\ result = [_rect_inside_safe |-> None, _inside_safe |-> None]

\* compliance_agent._rect_inside_safe
RectInsideSafe ==
    /\ pc = "inside"
    /\ result._rect_inside_safe = None
    /\ result' = [result EXCEPT
                    !._rect_inside_safe = Some(_rect_inside_safe(rects[1], margins[1]))]
    /\ UNCHANGED <<turn, issues_in, resolved, errors, now, validated, raw, store,
                   rects, margins, layout_json, plan>>

\* layout_planner_agent._inside_safe
InsideSafe ==
    /\ pc = "inside"
    /\ result._inside_safe = None
    /\ result' = [result EXCEPT
                    !._inside_safe = Some(_inside_safe(ToUnit(rects[1]), ToUnit(margins[1])))]
    /\ UNCHANGED <<turn, issues_in, resolved, errors, now, validated, raw, store,
                   rects, margins, layout_json, plan>>

InsideNext == RectInsideSafe \/ InsideSafe

InsideSpec == InsideInit /\ [][InsideNext]_vars

(***************************************************************************)
(* _overlap and _area on every pair of rects of the grid.                  *)
(***************************************************************************)
OverlapInit ==
    /\ pc = "overlap"
    /\ TurnInit
    /\ issues_in = << >>
    /\ resolved = [resolve_status |-> "", run_compliance_checks |-> ""]
    /\ layout_json = None
    /\ plan = None
    /\ \E a, b \in GridRects(0..Min(MaxCoord, GeoGrid), 0..Min(MaxExtent, GeoGrid)) :
          rects = <<a, b>>
    /\ margins = None
    /\ result = None

\* _overlap both ways round, and _area of each rect
Overlap ==
    /\ pc = "overlap"
    /\ result = None
    /\ result' = Some([ab |-> _overlap(rects[1], rects[2]),
                       ba |-> _overlap(rects[2], rects[1]),
                       area_a |-> _area(rects[1]),
                       area_b |-> _area(rects[2])])
    /\ UNCHANGED <<turn, issues_in, resolved, errors, now, validated, raw, store,
                   rects, margins, layout_json, plan>>

OverlapNext == Overlap

OverlapSpec == OverlapInit /\ [][OverlapNext]_vars

(***************************************************************************)
(* run_compliance_checks on every layout of at most MaxLayers layers.      *)
(***************************************************************************)
ChecksInit ==
    /\ pc = "checks"
    /\ TurnInit
    /\ issues_in = << >>
    /\ resolved = [resolve_status |-> "", run_compliance_checks |-> ""]
    /\ rects = << >>
    /\ margins = None
    /\ plan = None
    /\ \E sz \in {None, Some(Margins(1, 1, 1, 1))} :
       \E n \in 0..MaxLayers :
       \E ls \in [1..n -> LayerChoices] :
          layout_json = Some([safe_zones |-> sz, layers |-> ls])
    /\ result = None

RunComplianceChecks ==
    /\ pc = "checks"
    /\ result = None
    /\ result' = Some(run_compliance_checks(layout_json[1]))
    /\ UNCHANGED <<turn, issues_in, resolved, errors, now, validated, raw, store,
                   rects, margins, layout_json, plan>>

ChecksNext == RunComplianceChecks

ChecksSpec == ChecksInit /\ [][ChecksNext]_vars

(***************************************************************************)
(* The layout planner on every platform and style hint; the layout router  *)
(* and run_compliance_checks on what it planned.                           *)
(***************************************************************************)
PlanInit ==
    /\ pc = "plan"
    /\ TurnInit
    /\ issues_in = << >>
    /\ resolved = [resolve_status |-> "", run_compliance_checks |-> ""]
    /\ rects = << >>
    /\ margins = None
    /\ layout_json = None
    /\ \E platform \in Platforms \cup {"custom"}, layout_style \in LayoutStyles,
          priority \in PackshotPriorities, lock_logo \in BOOLEAN :
          plan = [platform |-> platform, layout_style |-> layout_style,
                  packshot_priority |-> priority, lock_logo |-> lock_logo,
                  layout |-> None, route |-> ""]
    /\ result = None

\* _derive_layout_for_platform
DeriveLayout ==
    /\ pc = "plan"
    /\ plan.layout = None
    /\ plan' = [plan EXCEPT !.layout = Some(planned_layout(plan.platform, plan.layout_style,
                                                          plan.packshot_priority))]
    /\ UNCHANGED <<turn, issues_in, resolved, errors, now, validated, raw, store,
                   rects, margins, layout_json, result>>

\* route_after_layout on the decision of the plan
RouteAfterPlan ==
    /\ pc = "plan"
    /\ plan.layout # None
    /\ plan.route = ""
    /\ plan' = [plan EXCEPT !.route =
                    route_after_layout([pipeline EXCEPT !.routing.layout_result =
                                                            plan.layout[1].decision],
                                       max_tool_loops, session_config).next]
    /\ UNCHANGED <<turn, issues_in, resolved, errors, now, validated, raw, store,
                   rects, margins, layout_json, result>>

\* run_compliance_checks on the planned layout
CheckPlan ==
    /\ pc = "plan"
    /\ plan.layout # None
    /\ result = None
    /\ result' = Some(run_compliance_checks_planned(plan.layout[1]))
    /\ UNCHANGED <<turn, issues_in, resolved, errors, now, validated, raw, store,
                   rects, margins, layout_json, plan>>

PlanNext == DeriveLayout \/ RouteAfterPlan \/ CheckPlan

PlanSpec == PlanInit /\ [][PlanNext]_vars

(***************************************************************************)
(* Status resolution on its own: resolve_status (tools/compliance/checks)  *)
(* on every issue list its Severity type allows, and the status line of    *)
(* run_compliance_checks on every list of ComplianceIssue.                 *)
(***************************************************************************)
IssueLists ==
    UNION { [1..n -> {Issue("ISSUE", sev) : sev \in Severity}] : n \in 0..MaxIssues }

ResolveInit ==
    /\ pc = "resolve"
    /\ TurnInit
    /\ GeomInit
    /\ issues_in \in IssueLists
    /\ resolved = [resolve_status |-> "", run_compliance_checks |-> ""]

ResolveStatus ==
    /\ pc = "resolve"
    /\ resolved.resolve_status = ""
    /\ resolved' = [resolved EXCEPT !.resolve_status = resolve_status(issues_in)]
    /\ UNCHANGED <<turn, issues_in, errors, now, validated, raw, store, geom>>

RunComplianceChecksStatus ==
    /\ pc = "resolve"
    /\ resolved.run_compliance_checks = ""
    /\ \A i \in 1..Len(issues_in) : issues_in[i].severity \in ComplianceIssueSeverity
    /\ resolved' = [resolved EXCEPT !.run_compliance_checks = ChecksStatus(issues_in)]
    /\ UNCHANGED <<turn, issues_in, errors, now, validated, raw, store, geom>>

ResolveNext == ResolveStatus \/ RunComplianceChecksStatus

ResolveSpec == ResolveInit /\ [][ResolveNext]_vars

(***************************************************************************)
(* Properties.                                                             *)
(***************************************************************************)
Stages == <<"master", "copy_validator", "layout_planner", "imageops",
            "compliance", "exporter", "summarizer">>

Rank(node) == CHOOSE i \in 1..Len(Stages) : Stages[i] = node

Routers == {"route_after_master", "route_after_copy", "route_after_layout",
            "route_after_compliance"}

\* the stage whose result a router decides on
StageOf(router) ==
    CASE router = "route_after_master" -> "master"
      [] router = "route_after_copy" -> "copy_validator"
      [] router = "route_after_layout" -> "layout_planner"
      [] router = "route_after_compliance" -> "compliance"

\* a router step that re-enters the stage just run or one upstream of it
BackwardStep == pc \in Routers /\ Rank(pc') <= Rank(StageOf(pc))

Last(seq) == seq[Len(seq)]

Occurs(seq, name) == \E i \in 1..Len(seq) : seq[i] = name

HasSeverity(issues, sev) == \E i \in 1..Len(issues) : issues[i].severity = sev

\* a turn invokes fewer nodes than the record of invocations can hold
InvokedRecordComplete == Len(invoked) < MaxInvoked

\* C1: in every reachable state of a turn the retry counter pipeline.tool_loops
\* is at most the configured maximum max_tool_loops, for every configured
\* maximum >= 0 (0 included).
RetryCounterWithinConfiguredMax == pipeline.tool_loops <= max_tool_loops

\* C2: every turn terminates: the graph eventually invokes summarizer and then
\* reaches the terminal state, whatever the stages return.
TurnTerminates == <>(pc = "END" /\ invoked # << >> /\ Last(invoked) = "summarizer")

\* C2 witness: a turn that ended after using up its whole retry budget
EndedWithBudgetExhausted ==
    /\ pc = "END"
    /\ Last(invoked) = "summarizer"
    /\ pipeline.tool_loops > 0
    /\ pipeline.tool_loops = max_tool_loops

\* C3 as stated: with the retry counter at maxBudget - 1, one more HARD_FAIL
\* compliance result makes the compliance router return summarizer.
HardFailAtMaxMinusOneSummarizes ==
    [][(/\ pc = "route_after_compliance"
        /\ compliance_result = "HARD_FAIL"
        /\ pipeline.tool_loops = max_tool_loops - 1)
       => pc' = "summarizer"]_vars

\* C3 amended: with the retry counter at maxBudget - 1, one more HARD_FAIL
\* compliance result makes the compliance router return a retry stage and raise
\* the counter to maxBudget; the HARD_FAIL result after that, with the counter
\* at maxBudget (>= 1), makes it return summarizer with the counter unchanged.
HardFailAtMaxMinusOneRetriesOnce ==
    [][(pc = "route_after_compliance" /\ compliance_result = "HARD_FAIL")
       => /\ pipeline.tool_loops = max_tool_loops - 1
             => /\ pc' \in {"copy_validator", "layout_planner", "imageops"}
                /\ pipeline'.tool_loops = max_tool_loops
          /\ (max_tool_loops >= 1 /\ pipeline.tool_loops = max_tool_loops)
             => /\ pc' = "summarizer"
                /\ pipeline'.tool_loops = max_tool_loops]_vars

\* C3 witness: the last permitted retry was just taken after a HARD_FAIL result
LastRetryTakenAfterHardFail ==
    /\ pc = "imageops"
    /\ Last(invoked) = "compliance"
    /\ compliance_result = "HARD_FAIL"
    /\ pipeline.tool_loops = max_tool_loops

\* C4: once the retry counter has reached the configured maximum, no router
\* returns a backward retry target.
NoRetryOnceMaxReached ==
    [][(pc \in Routers /\ pipeline.tool_loops >= max_tool_loops) => ~BackwardStep]_vars

\* the number of backward transitions in a sequence of invoked nodes
BackwardTransitions(seq) ==
    Cardinality({i \in 1..(Len(seq) - 1) : Rank(seq[i + 1]) <= Rank(seq[i])})

\* C5: each router decision that loops backward increases the retry counter by
\* exactly 1, every other step leaves it unchanged, and at the end of the turn
\* the counter equals the number of backward transitions taken.
CounterCountsBackwardTransitions ==
    /\ [][IF BackwardStep
          THEN pipeline'.tool_loops = pipeline.tool_loops + 1
          ELSE pipeline'.tool_loops = pipeline.tool_loops]_vars
    /\ [](pc = "END" => pipeline.tool_loops = BackwardTransitions(invoked))

\* C5 witness: a finished turn whose compliance router sent it back to image-ops
\* at least twice
EndedAfterRepeatedRetry ==
    /\ pc = "END"
    /\ pipeline.tool_loops >= 2
    /\ Cardinality({i \in 1..(Len(invoked) - 1) :
                       invoked[i] = "compliance" /\ invoked[i + 1] = "imageops"}) >= 2

\* C6: after compliance-check the router returns exporter if and only if the
\* status is PASS or WARN and no recorded issue has severity HARD_FAIL; in every
\* other case it takes the budgeted branch: a retry stage with the counter
\* raised by one, or summarizer with the counter unchanged.
ExporterIffNoHardFail ==
    [][pc = "route_after_compliance"
       => /\ pc' = "exporter"
             <=> /\ compliance_result \in {"PASS", "WARN"}
                 /\ ~HasSeverity(outputs.compliance.issues, "HARD_FAIL")
          /\ pc' # "exporter"
             => \/ /\ pc' \in {"copy_validator", "layout_planner", "imageops"}
                   /\ pipeline'.tool_loops = pipeline.tool_loops + 1
                \/ /\ pc' = "summarizer"
                   /\ pipeline'.tool_loops = pipeline.tool_loops]_vars

\* C6 witness: a nominally passing status with a HARD_FAIL issue was sent back
PassStatusWithHardFailIssueRetried ==
    /\ pc = "imageops"
    /\ Last(invoked) = "compliance"
    /\ compliance_result = "PASS"
    /\ HasSeverity(outputs.compliance.issues, "HARD_FAIL")

\* C7: after compliance-check runs, the status written to state.compliance_result,
\* pipeline.routing.compliance_result and outputs.compliance.status is the
\* validator's own resolved status for the recorded issue list: in particular it
\* is HARD_FAIL whenever that list contains a HARD_FAIL issue, whatever the
\* layout stage's decision was.
WrittenStatusIsValidatorsStatus ==
    pc = "route_after_compliance"
    => LET own == resolve_status(outputs.compliance.issues)
       IN  /\ compliance_result = own
           /\ pipeline.routing.compliance_result = own
           /\ outputs.compliance.status = own
           /\ HasSeverity(outputs.compliance.issues, "HARD_FAIL") => own = "HARD_FAIL"

\* the status rule of the specification
StatusRule(issues) ==
    IF HasSeverity(issues, "HARD_FAIL") THEN "HARD_FAIL"
    ELSE IF issues # << >> THEN "WARN" ELSE "PASS"

SeveritiesOf(issues) == {issues[i].severity : i \in 1..Len(issues)}

\* C8 as stated: for every issue list the status is HARD_FAIL if any issue is
\* HARD_FAIL, else WARN if any issue exists, else PASS, and resolve_status and
\* run_compliance_checks both follow this rule on every list their severity
\* types allow.
StatusFollowsRuleOnEveryList ==
    /\ resolved.resolve_status # "" => resolved.resolve_status = StatusRule(issues_in)
    /\ resolved.run_compliance_checks # ""
       => resolved.run_compliance_checks = StatusRule(issues_in)

\* C8 amended: resolve_status returns HARD_FAIL if any issue is HARD_FAIL, else
\* WARN if any issue has severity WARN, else PASS (a list of INFO issues only
\* resolves to PASS); run_compliance_checks follows the rule as stated; and the
\* two agree with the rule on every list of WARN and HARD_FAIL issues.
StatusFollowsRuleUpToInfo ==
    /\ resolved.resolve_status # ""
       => /\ resolved.resolve_status = "HARD_FAIL" <=> "HARD_FAIL" \in SeveritiesOf(issues_in)
          /\ resolved.resolve_status = "WARN"
             <=> ("WARN" \in SeveritiesOf(issues_in) /\ "HARD_FAIL" \notin SeveritiesOf(issues_in))
          /\ resolved.resolve_status = "PASS" <=> SeveritiesOf(issues_in) \subseteq {"INFO"}
          /\ "INFO" \notin SeveritiesOf(issues_in)
             => resolved.resolve_status = StatusRule(issues_in)
    /\ resolved.run_compliance_checks # ""
       => resolved.run_compliance_checks = StatusRule(issues_in)

\* C8 witness: a non-empty list of INFO issues was resolved, to PASS
InfoOnlyListResolved ==
    /\ issues_in # << >>
    /\ SeveritiesOf(issues_in) = {"INFO"}
    /\ resolved.resolve_status = "PASS"

\* seq holds the entries of sub in sub's order (not necessarily adjacent)
RECURSIVE IsSubsequence(_, _)
IsSubsequence(sub, seq) ==
    IF sub = << >> THEN TRUE
    ELSE IF seq = << >> THEN FALSE
    ELSE IF Head(sub) = Head(seq) THEN IsSubsequence(Tail(sub), Tail(seq))
    ELSE IsSubsequence(sub, Tail(seq))

\* C9: for a turn that succeeds (all seven stages were invoked and it ended),
\* pipeline.agents_run includes master, copy_validator, layout_planner, imageops,
\* compliance, exporter and summarizer in that relative order.
AgentsRunListsTheSevenStages ==
    (pc = "END" /\ \A i \in 1..Len(Stages) : Occurs(invoked, Stages[i]))
    => IsSubsequence(Stages, pipeline.agents_run)

RequestedFormats == OutputFormats(ui_context.selected_formats, outputs.layout.spec)

\* C10: when a turn that ran image-ops ends, outputs.artifacts holds exactly one
\* artifact per requested output format, also when image-ops was re-entered by
\* a compliance retry.
OneArtifactPerRequestedFormat ==
    (pc = "END" /\ Occurs(invoked, "imageops"))
    => /\ Len(outputs.artifacts) = Len(RequestedFormats)
       /\ \A k \in 1..Len(RequestedFormats) :
            Cardinality({i \in 1..Len(outputs.artifacts) :
                            outputs.artifacts[i].format = RequestedFormats[k]}) = 1

\* the number of times name occurs in seq
Count(seq, name) == Cardinality({i \in 1..Len(seq) : seq[i] = name})

\* C11: every stage invocation appends the stage's own name to
\* pipeline.agents_run exactly once: a stage invoked k times in a turn appears
\* exactly k times in pipeline.agents_run.
EachInvocationListedOnce ==
    \A i \in 1..Len(Stages) :
        Count(pipeline.agents_run, Stages[i]) = Count(invoked, Stages[i])

\* C12: after copy-validate (layout-plan) the router returns layout_planner
\* (imageops) if and only if the stage's result code is PASS (OK); for any other
\* code, WARN included, it returns the same stage when the retry counter is
\* below the configured maximum and summarizer otherwise.
ForwardIffResultGood ==
    [][/\ pc = "route_after_copy"
          => /\ pc' = "layout_planner" <=> pipeline.routing.copy_result = "PASS"
             /\ pipeline.routing.copy_result # "PASS"
                => pc' = (IF pipeline.tool_loops < max_tool_loops
                          THEN "copy_validator" ELSE "summarizer")
       /\ pc = "route_after_layout"
          => /\ pc' = "imageops" <=> pipeline.routing.layout_result = "OK"
             /\ pipeline.routing.layout_result # "OK"
                => pc' = (IF pipeline.tool_loops < max_tool_loops
                          THEN "layout_planner" ELSE "summarizer")]_vars

\* C13: after intake the router returns imageops if and only if the routing
\* state has copy result PASS and layout result OK; in every other case, results
\* UNKNOWN or absent included, it returns copy_validator.
IntakeSkipsIffBothResolved ==
    [][pc = "route_after_master"
       => /\ pc' = "imageops"
             <=> /\ pipeline.routing.copy_result = "PASS"
                 /\ pipeline.routing.layout_result = "OK"
          /\ pc' \in {"imageops", "copy_validator"}
          /\ pipeline' = pipeline]_vars

\* C13 witness: intake sent a turn with a resolved copy and an unresolved layout
\* to copy_validator
IntakeWithCopyResolvedOnly ==
    /\ invoked = << "master" >>
    /\ pc = "copy_validator"
    /\ pipeline.routing.copy_result = "PASS"
    /\ pipeline.routing.layout_result \in {"", "UNKNOWN"}

\* C14: when compliance-check fails and the retry counter is below the
\* configured maximum, the router returns copy_validator if the copy result is
\* FAIL or HARD_FAIL, else layout_planner if the layout result is FAIL or
\* HARD_FAIL, else imageops, and raises the counter by exactly one.
RetryTargetByFailedStage ==
    [][(/\ pc = "route_after_compliance"
        /\ ~(/\ _compliance_status(compliance_result, outputs) \in {"PASS", "WARN"}
             /\ ~HasSeverity(outputs.compliance.issues, "HARD_FAIL"))
        /\ pipeline.tool_loops < max_tool_loops)
       => /\ pc' = (IF pipeline.routing.copy_result \in {"FAIL", "HARD_FAIL"}
                    THEN "copy_validator"
                    ELSE IF pipeline.routing.layout_result \in {"FAIL", "HARD_FAIL"}
                         THEN "layout_planner" ELSE "imageops")
          /\ pipeline'.tool_loops = pipeline.tool_loops + 1]_vars

\* C14 witness: a failed compliance-check was sent back to layout_planner and
\* another, with both results bad, to copy_validator
RetriedAtLayoutPlanner ==
    /\ invoked = << "compliance" >>
    /\ pc = "layout_planner"
    /\ pipeline.routing.layout_result \in {"FAIL", "HARD_FAIL"}
    /\ pipeline.tool_loops >= 1

\* C15: each invocation of image-ops is immediately followed by
\* compliance-check, each invocation of export-normalize by summarize, and
\* summarize only by the terminal state, whatever the turn state.
FixedEdgesFollowed ==
    /\ [][/\ pc = "imageops" => pc' = "compliance"
          /\ pc = "exporter" => pc' = "summarizer"
          /\ pc = "summarizer" => pc' = "END"]_vars
    /\ [](\A i \in 1..Len(invoked) :
            /\ (invoked[i] = "imageops" /\ i < Len(invoked))
               => invoked[i + 1] = "compliance"
            /\ (invoked[i] = "exporter" /\ i < Len(invoked))
               => invoked[i + 1] = "summarizer"
            /\ invoked[i] = "summarizer" => i = Len(invoked))
    /\ [](pc = "END" => invoked # << >> /\ Last(invoked) = "summarizer")

\* C15 witness: a finished turn that ran image-ops and exported
EndedThroughEveryFixedEdge ==
    /\ pc = "END"
    /\ Occurs(invoked, "imageops")
    /\ Count(invoked, "compliance") = Count(invoked, "imageops")
    /\ Occurs(invoked, "exporter")
    /\ Last(invoked) = "summarizer"

\* C16: for a layout with no safe-zone definition the validator the
\* compliance-check stage invokes yields status HARD_FAIL, exactly one issue,
\* SAFEZONE_MISSING, and score 0.0; no further rule contributes an issue.
NoSafeZonesIsSingleHardFail ==
    (pc = "route_after_compliance" /\ ~outputs.layout.spec.safe_zones)
    => /\ outputs.compliance.status = "HARD_FAIL"
       /\ outputs.compliance.issues = << Issue("SAFEZONE_MISSING", "HARD_FAIL") >>
       /\ "score" \in DOMAIN outputs.compliance
       /\ outputs.compliance.score = 0

\* C17: compliance validation run twice on the same unchanged layout and copy
\* snapshot yields identical results: the same status, the same issues in the
\* same order and the same remaining fields.
ValidationIsIdempotent ==
    Len(validated) = 2 => validated[1] = validated[2]

\* a text the parsing steps turn into a CopyOutput object
Decodable(rawtext) ==
    \/ rawtext.whole = "copy"
    \/ rawtext.whole = "error" /\ rawtext.braces = "copy"

\* C18: for every text the text-generation collaborator returns, copy-validate
\* returns normally with a structured copy output and a routing copy_result;
\* whenever the text cannot be decoded into the copy shape the decision is
\* WARN; no parse failure leaves the stage.
EveryCopyTextHandled ==
    [][(pc = "copy_validator" /\ raw' # None)
       => /\ pc' = "route_after_copy"
          /\ outputs'.copy_out.decision \in Decision
          /\ pipeline'.routing.copy_result = outputs'.copy_out.decision
          /\ ~Decodable(raw'[1]) => outputs'.copy_out.decision = "WARN"]_vars

\* C19: no exception leaves run_turn: when a stage raises, run_turn still
\* returns a result and state.errors holds an error entry.
NoExceptionEscapesRunTurn ==
    /\ [](pc \notin Exceptions)
    /\ [][(Occurs(Stages, pc) /\ ~Occurs(Stages, pc') /\ pc' \notin Routers)
          => (pc' = "END" /\ (pc # "summarizer" => errors' # << >>))]_vars

\* C20: a failure of the image-generation collaborator inside image-ops is
\* retried: image-ops is re-entered while the retry counter is below the
\* maximum, each such retry raising the counter by one, and with the budget
\* used up the turn goes on to summarize.
ImageFailureIsRetried ==
    [][(pc = "imageops" /\ pc' # "compliance")
       => \/ /\ pipeline.tool_loops < _get_max_tool_loops(max_tool_loops, session_config)
             /\ pc' = "imageops"
             /\ pipeline'.tool_loops = pipeline.tool_loops + 1
          \/ /\ pipeline.tool_loops >= _get_max_tool_loops(max_tool_loops, session_config)
             /\ pc' = "summarizer"
             /\ pipeline'.tool_loops = pipeline.tool_loops]_vars

\* C21: in every terminal state of a turn outputs.summary.message is present
\* and non-empty, also when summarize was reached by budget exhaustion and
\* compliance never reached PASS.
SummaryMessageAtEnd ==
    pc = "END" => outputs.summary.message # ""

\* C21 witness: a turn that gave up after copy-validate, compliance never run
EndedWithoutCompliance ==
    /\ pc = "END"
    /\ ~Occurs(invoked, "compliance")
    /\ compliance_result = "UNKNOWN"
    /\ pipeline.tool_loops > 0

\* the outputs a stage owns: export-normalize annotates the artifact list
Owned(stage) ==
    CASE stage = "copy_validator" -> {"copy_out"}
      [] stage = "layout_planner" -> {"layout"}
      [] stage = "imageops" -> {"artifacts"}
      [] stage = "compliance" -> {"compliance"}
      [] stage = "exporter" -> {"artifacts"}
      [] stage = "summarizer" -> {"summary"}
      [] OTHER -> {}

\* C22: an invocation of copy-validate, layout-plan, image-ops,
\* compliance-check, export-normalize or summarize leaves the outputs owned by
\* every other stage (copy, layout, compliance, artifact list, summary)
\* unchanged.
StagesWriteOwnOutputOnly ==
    [][Occurs(Stages, pc)
       => \A field \in DOMAIN outputs \ Owned(pc) : outputs'[field] = outputs[field]]_vars

\* the turn documents of a session, in the order they were persisted
TurnsOf(sid) == SelectSeq(turns, LAMBDA d : d.session_id = sid)

\* C23: the rolling memory summarize wrote in turn n is persisted with the
\* turn: hydrating turn n+1 of the session returns memory.summary equal to
\* turn n's summary message and memory.last_updated_turn equal to n.
MemoryCarriedToNextTurn ==
    (pc = "hydrated" /\ TurnsOf(active.session_id) # << >>)
    => /\ active.memory.summary = Last(TurnsOf(active.session_id)).message
       /\ active.memory.last_updated_turn = Last(TurnsOf(active.session_id)).turn_index

\* C24: for the turns of one session run one after the other, the n-th turn is
\* hydrated and persisted with turn_index n: the indices are 1, 2, 3, ...
\* with no gap and no repeat.
TurnIndexCountsTurns ==
    /\ \A sid \in SessionIds :
          \A i \in 1..Len(TurnsOf(sid)) : TurnsOf(sid)[i].turn_index = i
    /\ pc \in {"hydrated", "invoked"}
       => active.turn_index = Len(TurnsOf(active.session_id)) + 1

\* C24 witness: a session's second turn was persisted after a turn of another
\* session
SecondTurnPersistedBetweenSessions ==
    \E sid \in SessionIds :
        /\ Len(TurnsOf(sid)) = 2
        /\ Len(turns) = 3
        /\ turns[3].session_id = sid
        /\ turns[2].session_id # sid

\* the doubled edges of a rect along x and along y
EdgesX(rect) == {2 * rect.x - rect.w, 2 * rect.x + rect.w}
EdgesY(rect) == {2 * rect.y - rect.h, 2 * rect.y + rect.h}

\* all four edges of the rect lie within [left, 1-right] x [top, 1-bottom]
EdgesWithinInset(rect, safe) ==
    /\ \A e \in EdgesX(rect) : 2 * safe.left <= e /\ e <= 2 * (GeoGrid - safe.right)
    /\ \A e \in EdgesY(rect) : 2 * safe.top <= e /\ e <= 2 * (GeoGrid - safe.bottom)

Degenerate(rect) == rect.w <= 0 \/ rect.h <= 0

\* what the containment functions returned, when they have
InsideAnswers ==
    {result[f][1] : f \in {g \in {"_rect_inside_safe", "_inside_safe"} : result[g] # None}}

\* C25: a rect is inside the safe zone if and only if all four of its edges
\* (x - w/2, x + w/2, y - h/2, y + h/2) lie within [left, 1-right] x
\* [top, 1-bottom]; in particular a non-degenerate rect with its edges in
\* [0,1]^2 is inside when all four margins are zero.
InsideIffEdgesWithinInset ==
    pc = "inside" =>
        /\ \A inside \in InsideAnswers :
              inside <=> EdgesWithinInset(rects[1], margins[1])
        /\ ( /\ margins[1] = Margins(0, 0, 0, 0)
             /\ ~Degenerate(rects[1])
             /\ EdgesWithinInset(rects[1], Margins(0, 0, 0, 0)) )
           => \A inside \in InsideAnswers : inside

\* C25 witness: both functions have answered, on a non-degenerate rect that
\* touches the canvas on two sides, with zero margins
InsideWithZeroMargins ==
    /\ pc = "inside"
    /\ InsideAnswers = {TRUE}
    /\ result._rect_inside_safe # None /\ result._inside_safe # None
    /\ margins[1] = Margins(0, 0, 0, 0)
    /\ rects[1] = RectN(1, GeoGrid - 1, 2, 2)

\* C26: degenerate rects are never inside: for every rect with w <= 0 or
\* h <= 0 and every safe zone, both containment functions answer false, also
\* when the centre of the rect lies within the inset.
DegenerateNeverInside ==
    (pc = "inside" /\ Degenerate(rects[1])) => \A inside \in InsideAnswers : ~inside

\* the cells (of half a grid step) along one axis that both extents cover
CommonCells(lo1, hi1, lo2, hi2) ==
    {c \in (0 - 2 * GeoGrid)..(4 * GeoGrid) :
        lo1 <= c /\ c < hi1 /\ lo2 <= c /\ c < hi2}

\* the area of the axis-aligned intersection of two rects, by counting cells
IntersectionArea(a, b) ==
    Cardinality(CommonCells(2 * a.x - a.w, 2 * a.x + a.w, 2 * b.x - b.w, 2 * b.x + b.w))
    * Cardinality(CommonCells(2 * a.y - a.h, 2 * a.y + a.h, 2 * b.y - b.h, 2 * b.y + b.h))

\* C27: overlapArea is symmetric: for all centre-based rects a and b,
\* overlapArea(a, b) equals overlapArea(b, a).
OverlapIsSymmetric ==
    (pc = "overlap" /\ result # None) => result[1].ab = result[1].ba

\* C27 witness: the overlap of two different rects that intersect was computed
OverlapOfTwoRectsComputed ==
    /\ pc = "overlap"
    /\ result # None
    /\ rects[1] # rects[2]
    /\ rects[1].w # rects[2].w
    /\ rects[1].y # rects[2].y
    /\ result[1].ab > 0

\* C28: overlapArea(a, b) is 0 for rects that do not intersect (also when they
\* only touch along an edge) and when either rect is degenerate; otherwise it
\* is the positive area of the axis-aligned intersection.
OverlapIsIntersectionArea ==
    (pc = "overlap" /\ result # None) =>
        /\ result[1].ab = IntersectionArea(rects[1], rects[2])
        /\ (Degenerate(rects[1]) \/ Degenerate(rects[2])) => result[1].ab = 0
        /\ result[1].ab >= 0

\* C28 witness: two non-degenerate rects that touch along an edge, with
\* overlap 0
TouchingRectsOverlapZero ==
    /\ pc = "overlap"
    /\ result # None
    /\ rects = <<RectN(0, 1, 2, 2), RectN(2, 1, 2, 2)>>
    /\ result[1].ab = 0

\* the layout run_compliance_checks has returned on, with safe zones
Checked == pc = "checks" /\ result # None /\ layout_json[1].safe_zones # None

\* the severities of the issues of a code that name a layer, in order
IssuesOf(code, i) ==
    LET hits == SelectSeq(result[1].issues,
                          LAMBDA iss : iss.code = code /\ iss.layer_id = i)
    IN  [k \in 1..Len(hits) |-> hits[k].severity]

\* the reference packshot and every cta, headline, subhead and badge carry a rect
FractionsDefined ==
    LET ls == layout_json[1].layers
    IN  /\ packshots(ls) # {}
        /\ ls[largest_packshot(ls)].rect # None
        /\ \A i \in overlap_layers(ls) : ls[i].rect # None

\* what the overlap rule says of a fraction ov / ar
OverlapRule(ov, ar) ==
    IF ov * 100 > OverlapHardFailPct * ar THEN <<"HARD_FAIL">>
    ELSE IF ov * 100 > OverlapWarnPct * ar THEN <<"WARN">>
    ELSE << >>

\* C29: for the reference (largest-area) packshot and every cta, headline,
\* subhead and badge layer, with fraction = overlapArea / area(layer): a
\* fraction above 0.35 yields exactly one OVERLAP_TEXT_PACKSHOT issue at
\* HARD_FAIL for the layer, a fraction in (0.15, 0.35] exactly one at WARN, a
\* fraction of at most 0.15 none; a cta fully inside the packshot yields
\* HARD_FAIL.
OverlapThresholds ==
    (Checked /\ FractionsDefined) =>
        LET ls == layout_json[1].layers
            prect == ls[largest_packshot(ls)].rect[1]
        IN  \A i \in overlap_layers(ls) :
                /\ IssuesOf("OVERLAP_TEXT_PACKSHOT", i)
                      = OverlapRule(IntersectionArea(prect, ls[i].rect[1]),
                                    4 * ls[i].rect[1].w * ls[i].rect[1].h)
                /\ (ls[i].type = "cta" /\ ls[i].rect[1].w > 0 /\ ls[i].rect[1].h > 0
                    /\ IntersectionArea(prect, ls[i].rect[1])
                         = 4 * ls[i].rect[1].w * ls[i].rect[1].h)
                   => IssuesOf("OVERLAP_TEXT_PACKSHOT", i) = <<"HARD_FAIL">>

\* C29 witness: a small packshot, then a larger one, then a cta fully inside
\* the larger one and clear of the small one: reported at HARD_FAIL
OverlapWithLargestPackshotReported ==
    /\ Checked
    /\ FractionsDefined
    /\ Len(layout_json[1].layers) = 3
    /\ layout_json[1].layers[1] = LayerDict("packshot", Some(RectN(2, 2, 2, 2)), TRUE, DefaultFontWeight)
    /\ layout_json[1].layers[2] = LayerDict("packshot", Some(RectN(4, 4, 4, 4)), TRUE, DefaultFontWeight)
    /\ layout_json[1].layers[3] = LayerDict("cta", Some(RectN(4, 4, 1, 1)), TRUE, DefaultFontWeight)
    /\ IssuesOf("OVERLAP_TEXT_PACKSHOT", 3) = <<"HARD_FAIL">>
    /\ result[1].status = "HARD_FAIL"

\* C30: safe-zone containment: for every layer set, a layer contributes a
\* RECT_MISSING HARD_FAIL issue iff it is critical and has no rect, an
\* OUTSIDE_SAFEZONE HARD_FAIL issue iff it is critical, has a rect and the rect
\* is not inside the safe zone, and neither issue when it is not critical.
ContainmentIssuesPerLayer ==
    Checked =>
        LET ls == layout_json[1].layers
            safe == layout_json[1].safe_zones[1]
        IN  \A i \in 1..Len(ls) :
                /\ IssuesOf("RECT_MISSING", i) =
                      (IF ls[i].critical /\ ls[i].rect = None
                       THEN <<"HARD_FAIL">> ELSE << >>)
                /\ IssuesOf("OUTSIDE_SAFEZONE", i) =
                      (IF /\ ls[i].critical
                          /\ ls[i].rect # None
                          /\ ~EdgesWithinInset(ls[i].rect[1], safe)
                       THEN <<"HARD_FAIL">> ELSE << >>)

\* C31: the validator has no error outcome: for every layer set with a
\* non-empty safe zone, also with packshot or text layers whose rect is
\* missing, run_compliance_checks returns a ComplianceResult instead of raising.
ValidatorNeverRaises ==
    Checked => ~result[1].raised

\* all four edges of a planned rect lie within the inset of the safe zone
PlannedWithinInset(rect, safe) ==
    /\ \A e \in {rect.x - rect.w \div 2, rect.x + rect.w \div 2} :
          safe.left <= e /\ e <= Unit - safe.right
    /\ \A e \in {rect.y - rect.h \div 2, rect.y + rect.h \div 2} :
          safe.top <= e /\ e <= Unit - safe.bottom

\* C32: for every platform preset and every combination of style hints (layout
\* style, packshot priority, logo lock), every critical layer the planner
\* produces has its rect inside the safe zone of the preset, the layout
\* decision is OK and the layout router does not take the retry branch.
PlannedCriticalLayersInside ==
    (pc = "plan" /\ plan.layout # None) =>
        /\ \A i \in 1..Len(plan.layout[1].layers) :
              plan.layout[1].layers[i].critical
              => PlannedWithinInset(plan.layout[1].layers[i].rect[1],
                                    plan.layout[1].safe_zones)
        /\ plan.layout[1].decision = "OK"
        /\ plan.route \in {"", "imageops"}

\* C32 witness: a story layout with a large packshot and a locked logo was
\* planned with its five critical layers, and the layout router went on to
\* imageops
StoryPlannedAndRouted ==
    /\ pc = "plan"
    /\ plan.layout # None
    /\ plan.platform = "instagram_story"
    /\ plan.packshot_priority = "high"
    /\ plan.lock_logo
    /\ Cardinality({i \in 1..Len(plan.layout[1].layers) :
                        plan.layout[1].layers[i].critical}) = 5
    /\ plan.route = "imageops"

\* C40: for every platform preset and style-hint combination, the planned
\* layers pass run_compliance_checks without a HARD_FAIL issue: no headline or
\* cta overlaps the packshot by more than 0.35 of its own area and no critical
\* layer is reported OUTSIDE_SAFEZONE.
PlannedLayersPassChecks ==
    (pc = "plan" /\ result # None) =>
        /\ \A k \in 1..Len(result[1].issues) : result[1].issues[k].severity # "HARD_FAIL"
        /\ result[1].status # "HARD_FAIL"

\* C33: whenever compliance-check is followed by a backward transition the
\* target is imageops: when the compliance router runs the copy result is PASS
\* and the layout result is OK, so copy_validator and layout_planner are never
\* selected as compliance retry targets.
ComplianceRetriesAtImageops ==
    [][pc = "route_after_compliance"
       => /\ pipeline.routing.copy_result = "PASS"
          /\ pipeline.routing.layout_result = "OK"
          /\ pc' \in {"imageops", "exporter", "summarizer"}
          /\ BackwardStep => pc' = "imageops"]_vars

\* C33 witness: the compliance router has just sent a turn back to imageops
\* for the first time, with copy result PASS and layout result OK
ComplianceSentBackToImageops ==
    /\ pc = "imageops"
    /\ Last(invoked) = "compliance"
    /\ pipeline.routing.copy_result = "PASS"
    /\ pipeline.routing.layout_result = "OK"
    /\ pipeline.tool_loops = 1

\* C34: in every turn summarizer is invoked exactly once and is the last
\* stage invoked, and exporter is invoked at most once; exporter is not invoked
\* on a path on which a router sends the turn to summarizer because the budget
\* is used up.
SummarizerOnceExporterAtMostOnce ==
    /\ <>(pc = "END")
    /\ [](pc = "END" => /\ Count(invoked, "summarizer") = 1
                        /\ Last(invoked) = "summarizer"
                        /\ Occurs(invoked, "exporter")
                           => invoked[Len(invoked) - 1] = "exporter")
    /\ [](Count(invoked, "exporter") <= 1)
    /\ [][(pc \in Routers /\ pc' = "summarizer") => ~Occurs(invoked, "exporter")]_vars

\* C34 witness: a turn that retried copy-validate, then exported, has ended
EndedExportedAfterCopyRetry ==
    /\ pc = "END"
    /\ Count(invoked, "copy_validator") >= 2
    /\ Count(invoked, "exporter") = 1
    /\ Count(invoked, "summarizer") = 1

\* C35: if copy-validate never returns decision PASS in a turn, copy-validate
\* is invoked exactly max_tool_loops + 1 times and the turn then goes to
\* summarizer without layout-plan, image-ops, compliance-check or exporter
\* running, and ends with no artifacts.
CopyNeverPassingUsesWholeBudget ==
    (/\ pc = "END"
     /\ Occurs(invoked, "copy_validator")
     /\ pipeline.routing.copy_result # "PASS")
    => /\ Count(invoked, "copy_validator") = max_tool_loops + 1
       /\ \A stage \in {"layout_planner", "imageops", "compliance", "exporter"} :
             ~Occurs(invoked, stage)
       /\ Last(invoked) = "summarizer"
       /\ outputs.artifacts = << >>

\* C36: whenever a turn ends with compliance_result = PASS, the issue list
\* recorded in outputs.compliance.issues contains no HARD_FAIL issue and
\* exporter ran in that turn.
PassedTurnCleanAndExported ==
    (pc = "END" /\ compliance_result = "PASS")
    => /\ ~HasSeverity(outputs.compliance.issues, "HARD_FAIL")
       /\ Occurs(invoked, "exporter")

\* the turn documents of session sid
StoredOf(sid) == {turns[i] : i \in {j \in 1..Len(turns) : turns[j].session_id = sid}}

\* C37: for any interleaving of two run_turn executions on the same session,
\* both turns are persisted and they carry distinct turn_index values: no
\* completed turn is lost because another turn hydrated the same index.
ConcurrentTurnsBothPersisted ==
    /\ \A w \in Workers : workers[w].pc # "TurnPersistenceError"
    /\ \A i, j \in 1..Len(turns) :
          (i # j /\ turns[i].session_id = turns[j].session_id)
          => turns[i].turn_index # turns[j].turn_index

\* no persist_turn call is under way on session sid
NoPersistUnderWay(sid) ==
    \A w \in Workers :
        workers[w].st.session_id = sid => workers[w].pc \notin {"inserted", "loaded"}

\* with no call under way, the session's count is the highest stored index and
\* its pointer names the turn with that index
PersistsSettled ==
    \A sid \in SessionIds :
        (StoredOf(sid) # {} /\ NoPersistUnderWay(sid))
        => \E d \in StoredOf(sid) :
              /\ \A e \in StoredOf(sid) : e.turn_index <= d.turn_index
              /\ sessions[sid][1].counters.turn_count = d.turn_index
              /\ sessions[sid][1].pointers.last_turn_id = Some(d.turn_id)

\* C38: for any interleaving of persist_turn calls on one session, the
\* session's turn_count never decreases, and once all calls have finished it
\* equals the highest persisted turn_index while last_turn_id names the turn
\* with that index.
TurnCountFollowsHighestIndex ==
    [][/\ \A sid \in SessionIds :
             sessions[sid] # None
             => sessions'[sid][1].counters.turn_count >= sessions[sid][1].counters.turn_count
       /\ PersistsSettled']_vars

\* seq is the last Len(seq) elements of whole
IsSuffix(seq, whole) ==
    /\ Len(seq) <= Len(whole)
    /\ seq = SubSeq(whole, Len(whole) - Len(seq) + 1, Len(whole))

\* C39: after any sequence of SessionMemoryStore.append calls, the stored
\* messages are a contiguous suffix of the appended sequence in original
\* order, their count is at most max_messages, their total content length is
\* at most max_chars_total, and the most recently appended message is retained.
MemoryIsBoundedSuffixWithLatest ==
    /\ IsSuffix(memory.messages, appended)
    /\ Len(memory.messages) <= memory_config.max_messages
    /\ total_chars(memory.messages) <= memory_config.max_chars_total
    /\ appended # << >>
       => /\ memory.messages # << >>
          /\ Last(memory.messages) = Last(appended)

====
